---------------------------- MODULE Spec2Model ----------------------------
(***************************************************************************)
(* A model of github.com/imyousuf/appcommons, package storage (rdbms.go):  *)
(* the transaction executor (ExecuteOpsInTransaction and the write helpers *)
(* built on it), the one-time connection pool initialiser                  *)
(* (GetConfiguredConnectionPool), the pagination fragment generator with   *)
(* its bind values, the page sweeps the storage test runs with them, and   *)
(* the query helpers QueryRows and QuerySingleRow; and of its packages     *)
(* controller (GetPagination, GetPaginationLinks, WriteJSON, ConfigureAPI) *)
(* and config (GetConfiguration).                                          *)
(*                                                                         *)
(* database/sql is the environment: Begin, Commit, Rollback, Exec and      *)
(* RowsAffected succeed or fail nondeterministically.  A transaction works *)
(* on a private copy (pending) of the committed rows; only a successful    *)
(* Commit publishes it.  A failed Commit or Rollback ends the transaction  *)
(* without publishing anything.                                            *)
(***************************************************************************)
EXTENDS Integers, Sequences, FiniteSets, TLC

\* ------------------------------------------------------------------ bounds

\* Longest op list handed to ExecuteMultipleWriteOpsInTransaction.
MaxOps == 3

\* Largest affected-row count a statement reports.
MaxRows == 2

\* Number of goroutines calling GetConfiguredConnectionPool.
NumCallers == 3

\* Largest id and largest timestamp of a cursor handed to the fragment
\* generator.
MaxCursorId == 2

MaxCursorTime == 2

\* Largest number of rows of the table a sweep reads, and the largest number
\* of consecutive rows created at the same instant.
MaxTableRows == 51

MaxTie == 3

\* Largest number of rows inserted while a sweep is under way.
MaxInserts == 2

\* Largest number of interrupts sent to the process and of requests the
\* server answers.
MaxSignals == 2

MaxRequests == 2

\* Number of different values given to WriteJSON.
MaxPayload == 4

\* Largest number of rows a result set delivers to QueryRows.
MaxResultRows == 3

\* ------------------------------------------------------- program constants

\* int64(1), the expectedRowEffected GetTxWrapperForSingleWriteQuery passes.
ExpectedRowEffected == 1

\* The page size enum: iota counts the specs of the const block, and the ten
\* order-by clauses come first.
RegularPageSize == 10

MediumPageSize == 11

LargePageSize == 12

ExtraLargePageSize == 13

\* ------------------------------------------------------------------ values

\* Go's error values.  at is the id of the op that produced the error (0 for
\* errors that belong to no op), so that two ops' errors are distinguishable.
NoErr == [e |-> "nil", at |-> 0]

ErrNoRowsUpdated == [e |-> "ErrNoRowsUpdated", at |-> 0]

BeginErr == [e |-> "beginErr", at |-> 0]

CommitErr == [e |-> "commitErr", at |-> 0]

OpErr(id) == [e |-> "opErr", at |-> id]

ExecErr(id) == [e |-> "execErr", at |-> id]

RowsAffectedErr(id) == [e |-> "rowsAffectedErr", at |-> id]

\* What an entry of the op list can be:
\*   nil    a nil func value;
\*   op     an arbitrary func(tx) error: it writes one row and then returns
\*          nil, returns an error, or panics;
\*   query  the closure GetTxWrapperForSingleWriteQuery returns; out and rows
\*          are what the driver answers to Exec and RowsAffected.
Behaviours ==
    {[kind |-> "nil", out |-> "none", rows |-> 0]}
    \cup {[kind |-> "op", out |-> o, rows |-> 1] : o \in {"ok", "err", "panic"}}
    \cup {[kind |-> "query", out |-> "execErr", rows |-> 0],
          [kind |-> "query", out |-> "rowsErr", rows |-> 1]}
    \cup {[kind |-> "query", out |-> "ok", rows |-> n] : n \in 0..MaxRows}

QueryBehaviours == {b \in Behaviours : b.kind = "query"}

OpLists == UNION {[1..n -> Behaviours] : n \in 0..MaxOps}

\* The list with every entry tagged by its position, the op's identity.
WithIds(l) ==
    [k \in DOMAIN l |->
        [id |-> k, kind |-> l[k].kind, out |-> l[k].out, rows |-> l[k].rows]]

\* The rows op writes through the transaction when it runs.
Effect(op) == {<<op.id, j>> : j \in 1..op.rows}

\* The committed rows a database may hold before a call.
InitialRows == {{}, {<<0, 1>>}}

Event(ev, at, val) == [ev |-> ev, at |-> at, val |-> val]

VARIABLES
    api,        \* which entry point was called: "none", "multi", "single"
    ops,        \* the op list of the call (entries tagged with ids)
    committed,  \* the rows visible to every connection
    before,     \* committed, as it was when the call started
    pending,    \* the rows as the open transaction sees them
    tx,         \* the local tx of ExecuteOpsInTransaction: 0 is nil
    txState,    \* "none", "open", "committed", "commitFailed",
                \* "rolledback", "rollbackFailed"
    pc,         \* the position of the call
    i,          \* the range loop's index into ops
    err,        \* ExecuteOpsInTransaction's named result
    opErr,      \* the named result err of the closure that runs the ops
    ret,        \* the value the call returned
    stamp,      \* the caller's value that preOp stamps and the argument
                \* provider reads
    qargs,      \* the arguments evaluated for the statement being executed
    log,        \* history: what was invoked, in order
    db,         \* the package variable db: 0 (nil) or the pool's handle
    onceDone,   \* dataAccessorInitializer: the done flag of sync.Once
    onceLock,   \* dataAccessorInitializer: who holds its mutex, 0 nobody
    cpc,        \* per caller: position in GetConfiguredConnectionPool
    cerr,       \* per caller: the local err
    cret,       \* per caller: the returned <<db, err>>
    initRuns,   \* history: how often the initialisation body was entered
    initEnded,  \* history: how often the initialisation body finished
    ranInit,    \* history, per caller: its current call ran the body
    page,       \* the *data.Pagination handed to the fragment generator
    appendFlag, \* its append argument
    pageSize,   \* its pageSize argument
    fragment,   \* what GetPaginationQueryFragmentWithConfigurablePageSize
                \* returned (NoFragment before the call)
    bindArgs,   \* what GetPaginationTimestampQueryArgs returned (NoArgs
                \* before the call)
    table,         \* the rows of table test
    startRows,     \* history: the rows of the table when the sweep started
    sweepSize,     \* pageSize of the sweep
    sweepAppend,   \* whether the base query has its own WHERE
    sweepPage,     \* page, the Pagination of the next query
    spc,           \* where the sweep is: forward, turn, reverse, done
    testData,      \* the rows of the forward loop, in the order scanned
    oppositeOrder, \* the rows of the backward loop, in the order scanned
    absLastData,   \* the last row the forward loop scanned (NoRow: nil)
    forwardFetches, \* history: queries run by the forward loop
    reverseFetches, \* history: queries run by the backward loop
    qapi,      \* the query helper called: QueryRows or QuerySingleRow
    result,    \* what the database and the scan provider will do
    qpc,       \* position of the call
    fetched,   \* rows the result set has delivered (rows.Next() = true)
    argCalls,  \* history: calls of queryArgs
    scanCalls, \* history: calls of scanArgs
    scans,     \* history: calls of Scan that ran
    closed,    \* history: times the result set was closed
    qret,      \* the error returned (Unset before the return)
    lrows,     \* the rows <<first, last>> given to data.NewPagination
    lpage,     \* the *data.Pagination of the response: <<>> is nil, <<p>>
               \* points to p
    lreq,      \* the URL of the request at hand
    links,     \* the map GetPaginationLinks returned
    parsed,    \* the Pagination GetPagination returned
    lpc,       \* what the handler has done so far
    jdata,     \* the value given to WriteJSON and whether getJSON encodes it
    jpc,       \* position of WriteJSON
    jheader,   \* w.Header(), the header map of the response writer
    jstatus,   \* the status code committed by WriteHeader (0: none yet)
    jsent,     \* the headers committed together with the status
    jbody,     \* what was written as the body
    servePc,   \* position of the goroutine that serves
    exitPc,    \* position of the goroutine that waits for the interrupt
    srv,       \* the http.Server: "new", "listening" or "shutdown"
    stop,      \* signals buffered in channel stop (capacity 1)
    signals,   \* history: interrupts sent to the process
    requests,  \* history: requests answered
    events,    \* history: listener calls and server events, in order
    confIn,    \* the configuration file and the environment it is checked in
    confPc,    \* position of GetConfiguration
    conf,      \* the *Config returned
    confErr    \* the error returned

txVars == <<api, ops, committed, before, pending, tx, txState, pc, i, err,
            opErr, ret, stamp, qargs, log>>

poolVars == <<db, onceDone, onceLock, cpc, cerr, cret, initRuns, initEnded,
              ranInit>>

pageVars == <<page, appendFlag, pageSize, fragment, bindArgs>>

sweepVars ==
    <<table, startRows, sweepSize, sweepAppend, sweepPage, spc, testData, oppositeOrder,
      absLastData, forwardFetches, reverseFetches>>

rowsVars ==
    <<qapi, result, qpc, fetched, argCalls, scanCalls, scans, closed, qret>>

linkVars == <<lrows, lpage, lreq, links, parsed, lpc>>

jsonVars == <<jdata, jpc, jheader, jstatus, jsent, jbody>>

apiVars ==
    <<servePc, exitPc, srv, stop, signals, requests, events, confIn, confPc,
      conf, confErr>>

vars ==
    <<txVars, poolVars, pageVars, sweepVars, rowsVars, linkVars, jsonVars,
      apiVars>>

\* What the transaction executor leaves alone, what the pool initialiser
\* leaves alone, and so on.
exceptTx ==
    <<poolVars, pageVars, sweepVars, rowsVars, linkVars, jsonVars,
      apiVars>>

exceptPool ==
    <<txVars, pageVars, sweepVars, rowsVars, linkVars, jsonVars,
      apiVars>>

exceptPage ==
    <<txVars, poolVars, sweepVars, rowsVars, linkVars, jsonVars,
      apiVars>>

exceptSweep ==
    <<txVars, poolVars, pageVars, rowsVars, linkVars, jsonVars,
      apiVars>>

exceptRows ==
    <<txVars, poolVars, pageVars, sweepVars, linkVars, jsonVars,
      apiVars>>

exceptLinks ==
    <<txVars, poolVars, pageVars, sweepVars, rowsVars, jsonVars,
      apiVars>>

exceptJSON ==
    <<txVars, poolVars, pageVars, sweepVars, rowsVars, linkVars, apiVars>>

exceptAPI ==
    <<txVars, poolVars, pageVars, sweepVars, rowsVars, linkVars, jsonVars>>

Callers == 1..NumCallers

Logged(e) == log' = Append(log, e)

Count(ev) == Cardinality({k \in DOMAIN log : log[k].ev = ev})

Has(ev) == \E k \in DOMAIN log : log[k].ev = ev

Unset == [e |-> "unset", at |-> 0]

\* ------------------------------------------------ the transaction executor

TxInit ==
    /\ api = "none"
    /\ ops = <<>>
    /\ committed \in InitialRows
    /\ before = committed
    /\ pending = {}
    /\ tx = 0
    /\ txState = "none"
    /\ pc = "idle"
    /\ i = 0
    /\ err = NoErr
    /\ opErr = NoErr
    /\ ret = Unset
    /\ stamp = 0
    /\ qargs = 0
    /\ log = <<>>

\* ExecuteMultipleWriteOpsInTransaction(db, ops...) is called.
CallMultiple ==
    /\ pc = "idle"
    /\ \E l \in OpLists : ops' = WithIds(l)
    /\ api' = "multi"
    /\ before' = committed
    /\ pc' = "begin"
    /\ UNCHANGED <<committed, pending, tx, txState, i, err, opErr, ret, stamp,
                   qargs, log>>
    /\ UNCHANGED exceptTx

\* ExecuteSingleRowWriteInTransaction(db, preOp, query, arguments) is called:
\* the multi-op call with the one wrapper of GetTxWrapperForSingleWriteQuery.
CallSingle ==
    /\ pc = "idle"
    /\ \E b \in QueryBehaviours : ops' = WithIds(<<b>>)
    /\ api' = "single"
    /\ before' = committed
    /\ pc' = "begin"
    /\ UNCHANGED <<committed, pending, tx, txState, i, err, opErr, ret, stamp,
                   qargs, log>>
    /\ UNCHANGED exceptTx

\* Mutant: the guard on Begin's error is missing.
AfterBegin_IgnoresError(e) == "loop"

\* if err == nil { err = txOps(tx) ... }: txOps runs only after a Begin that
\* succeeded; otherwise the function goes straight to return err.
AfterBegin(e) == IF e = NoErr THEN "loop" ELSE "return"

\* tx, err = db.Begin(), and the guard on err.
Begin ==
    /\ pc = "begin"
    /\ \/ /\ tx' = 1
          /\ txState' = "open"
          /\ pending' = committed
          /\ err' = NoErr
          /\ Logged(Event("begin", 0, "ok"))
       \/ /\ tx' = 0
          /\ err' = BeginErr
          /\ Logged(Event("begin", 0, "fail"))
          /\ UNCHANGED <<txState, pending>>
    /\ pc' = AfterBegin(err')
    /\ i' = 1
    /\ opErr' = NoErr
    /\ UNCHANGED <<api, ops, committed, before, ret, stamp, qargs>>
    /\ UNCHANGED exceptTx

\* Mutant: the break is missing, so a later op overwrites the error.
LoopContinue_NoBreak(e) == TRUE

\* if err != nil { break }: the loop goes on to the next op only after an op
\* that returned nil.
LoopContinue(e) == e = NoErr

\* Mutant: the nil check is missing; calling a nil func panics.
LoopNil_Panics ==
    /\ pc = "loop"
    /\ i <= Len(ops)
    /\ ops[i].kind = "nil"
    /\ Logged(Event("op", ops[i].id, tx))
    /\ pc' = "recover"
    /\ UNCHANGED <<api, ops, committed, before, pending, tx, txState, i, err,
                   opErr, ret, stamp, qargs>>
    /\ UNCHANGED exceptTx

\* if op == nil { log.Warn(); continue }
LoopNil ==
    /\ pc = "loop"
    /\ i <= Len(ops)
    /\ ops[i].kind = "nil"
    /\ Logged(Event("warnNil", ops[i].id, tx))
    /\ i' = i + 1
    /\ UNCHANGED <<api, ops, committed, before, pending, tx, txState, pc, err,
                   opErr, ret, stamp, qargs>>
    /\ UNCHANGED exceptTx

\* err = op(tx) for an arbitrary op: it writes, then returns nil, returns an
\* error or panics.
LoopOp ==
    /\ pc = "loop"
    /\ i <= Len(ops)
    /\ ops[i].kind = "op"
    /\ Logged(Event("op", ops[i].id, tx))
    /\ pending' = pending \cup Effect(ops[i])
    /\ \/ /\ ops[i].out = "panic"
          /\ pc' = "recover"
          /\ UNCHANGED <<i, opErr>>
       \/ /\ ops[i].out # "panic"
          /\ opErr' = IF ops[i].out = "err" THEN OpErr(ops[i].id) ELSE NoErr
          /\ IF LoopContinue(opErr')
                THEN i' = i + 1 /\ pc' = "loop"
                ELSE i' = i /\ pc' = "opsReturn"
    /\ UNCHANGED <<api, ops, committed, before, tx, txState, err, ret, stamp,
                   qargs>>
    /\ UNCHANGED exceptTx

\* Mutant: prequeryOps() is never called.
LoopQuery_SkipPreOp ==
    /\ pc = "loop"
    /\ i <= Len(ops)
    /\ ops[i].kind = "query"
    /\ Logged(Event("query", ops[i].id, tx))
    /\ pc' = "args"
    /\ UNCHANGED <<api, ops, committed, before, pending, tx, txState, i, err,
                   opErr, ret, stamp, qargs>>
    /\ UNCHANGED exceptTx

\* err = op(tx) for a single-write wrapper: ExecuteQueryInTransaction is
\* entered.
LoopQuery ==
    /\ pc = "loop"
    /\ i <= Len(ops)
    /\ ops[i].kind = "query"
    /\ Logged(Event("query", ops[i].id, tx))
    /\ pc' = "preOp"
    /\ UNCHANGED <<api, ops, committed, before, pending, tx, txState, i, err,
                   opErr, ret, stamp, qargs>>
    /\ UNCHANGED exceptTx

\* The range loop is exhausted: return err.
LoopEnd ==
    /\ pc = "loop"
    /\ i > Len(ops)
    /\ pc' = "opsReturn"
    /\ UNCHANGED <<api, ops, committed, before, pending, tx, txState, i, err,
                   opErr, ret, stamp, qargs, log>>
    /\ UNCHANGED exceptTx

\* prequeryOps(): the caller's side effect, here stamping a value of its own.
PreOp ==
    /\ pc = "preOp"
    /\ stamp' = ops[i].id
    /\ Logged(Event("preOp", ops[i].id, stamp'))
    /\ pc' = "args"
    /\ UNCHANGED <<api, ops, committed, before, pending, tx, txState, i, err,
                   opErr, ret, qargs>>
    /\ UNCHANGED exceptTx

\* arguments(): the argument provider reads the caller's value.
Args ==
    /\ pc = "args"
    /\ qargs' = stamp
    /\ Logged(Event("args", ops[i].id, qargs'))
    /\ pc' = "exec"
    /\ UNCHANGED <<api, ops, committed, before, pending, tx, txState, i, err,
                   opErr, ret, stamp>>
    /\ UNCHANGED exceptTx

\* result, err = tx.Exec(query, arguments()...)
Exec ==
    /\ pc = "exec"
    /\ Logged(Event("exec", ops[i].id, qargs))
    /\ IF ops[i].out = "execErr"
          THEN /\ opErr' = ExecErr(ops[i].id)
               /\ pc' = "opsReturn"
               /\ UNCHANGED pending
          ELSE /\ pending' = pending \cup Effect(ops[i])
               /\ pc' = "rows"
               /\ UNCHANGED opErr
    /\ UNCHANGED <<api, ops, committed, before, tx, txState, i, err, ret,
                   stamp, qargs>>
    /\ UNCHANGED exceptTx

\* Mutant: only a count of 0 is refused (rowsAffected == 0).
QueryResult_ZeroOnly(op) ==
    IF op.out = "rowsErr"
        THEN RowsAffectedErr(op.id)
        ELSE IF ExpectedRowEffected > 0 /\ op.rows = 0
                THEN ErrNoRowsUpdated
                ELSE NoErr

\* rowsAffected, err = result.RowsAffected(), then
\* expectedRowEffected > 0 && rowsAffected != expectedRowEffected && err == nil.
QueryResult(op) ==
    IF op.out = "rowsErr"
        THEN RowsAffectedErr(op.id)
        ELSE IF ExpectedRowEffected > 0 /\ op.rows # ExpectedRowEffected
                THEN ErrNoRowsUpdated
                ELSE NoErr

\* ExecuteQueryInTransaction returns to the loop.
RowsAffected ==
    /\ pc = "rows"
    /\ opErr' = QueryResult(ops[i])
    /\ Logged(Event("rowsAffected", ops[i].id, ops[i].rows))
    /\ IF LoopContinue(opErr')
          THEN i' = i + 1 /\ pc' = "loop"
          ELSE i' = i /\ pc' = "opsReturn"
    /\ UNCHANGED <<api, ops, committed, before, pending, tx, txState, err, ret,
                   stamp, qargs>>
    /\ UNCHANGED exceptTx

\* Mutant: the transaction is committed whatever txOps returned.
AfterOps_AlwaysCommit(e) == "commit"

\* if err == nil { tx.Commit() } else { Rollback(tx) }
AfterOps(e) == IF e = NoErr THEN "commit" ELSE "rollback"

\* err = txOps(tx) has returned.
OpsReturn ==
    /\ pc = "opsReturn"
    /\ err' = opErr
    /\ pc' = AfterOps(err')
    /\ UNCHANGED <<api, ops, committed, before, pending, tx, txState, i, opErr,
                   ret, stamp, qargs, log>>
    /\ UNCHANGED exceptTx

\* Mutant: a commit error is logged but not assigned to err.
Commit_SwallowsError ==
    /\ pc = "commit"
    /\ \/ /\ txState' = "committed"
          /\ committed' = pending
          /\ Logged(Event("commit", 0, "ok"))
       \/ /\ txState' = "commitFailed"
          /\ Logged(Event("commit", 0, "fail"))
          /\ UNCHANGED committed
    /\ pc' = "return"
    /\ UNCHANGED <<api, ops, before, pending, tx, i, err, opErr, ret, stamp,
                   qargs>>
    /\ UNCHANGED exceptTx

\* txErr := tx.Commit(); if txErr != nil { err = txErr }
Commit ==
    /\ pc = "commit"
    /\ \/ /\ txState' = "committed"
          /\ committed' = pending
          /\ Logged(Event("commit", 0, "ok"))
          /\ UNCHANGED err
       \/ /\ txState' = "commitFailed"
          /\ err' = CommitErr
          /\ Logged(Event("commit", 0, "fail"))
          /\ UNCHANGED committed
    /\ pc' = "return"
    /\ UNCHANGED <<api, ops, before, pending, tx, i, opErr, ret, stamp, qargs>>
    /\ UNCHANGED exceptTx

\* Mutant: a rollback error replaces the error txOps returned.
RollbackOnError_ReturnsRollbackErr ==
    /\ pc = "rollback"
    /\ \/ /\ txState' = "rolledback"
          /\ Logged(Event("rollback", 0, "ok"))
          /\ UNCHANGED err
       \/ /\ txState' = "rollbackFailed"
          /\ Logged(Event("rollback", 0, "fail"))
          /\ err' = [e |-> "rollbackErr", at |-> 0]
    /\ pc' = "return"
    /\ UNCHANGED <<api, ops, committed, before, pending, tx, i, opErr, ret,
                   stamp, qargs>>
    /\ UNCHANGED exceptTx

\* Mutant: the else branch returns the error without rolling back.
RollbackOnError_LeavesOpen ==
    /\ pc = "rollback"
    /\ pc' = "return"
    /\ UNCHANGED <<api, ops, committed, before, pending, tx, txState, i, err,
                   opErr, ret, stamp, qargs, log>>
    /\ UNCHANGED exceptTx

\* Rollback(tx) in the else branch: a rollback error is logged, not returned.
RollbackOnError ==
    /\ pc = "rollback"
    /\ \/ /\ txState' = "rolledback"
          /\ Logged(Event("rollback", 0, "ok"))
       \/ /\ txState' = "rollbackFailed"
          /\ Logged(Event("rollback", 0, "fail"))
    /\ pc' = "return"
    /\ UNCHANGED <<api, ops, committed, before, pending, tx, i, err, opErr, ret,
                   stamp, qargs>>
    /\ UNCHANGED exceptTx

\* Mutant: the deferred function recovers and logs but does not roll back.
Recover_NoRollback ==
    /\ pc = "recover"
    /\ Logged(Event("recover", 0, "panic"))
    /\ ret' = err
    /\ pc' = "done"
    /\ UNCHANGED <<api, ops, committed, before, pending, tx, txState, i, err,
                   opErr, stamp, qargs>>
    /\ UNCHANGED exceptTx

\* The deferred function with recover() != nil: log, Rollback(tx); the call
\* then returns its named result err as it stands.
Recover ==
    /\ pc = "recover"
    /\ \/ /\ txState' = "rolledback"
          /\ log' = log \o <<Event("recover", 0, "panic"),
                             Event("rollback", 0, "ok")>>
       \/ /\ txState' = "rollbackFailed"
          /\ log' = log \o <<Event("recover", 0, "panic"),
                             Event("rollback", 0, "fail")>>
    /\ ret' = err
    /\ pc' = "done"
    /\ UNCHANGED <<api, ops, committed, before, pending, tx, i, err, opErr,
                   stamp, qargs>>
    /\ UNCHANGED exceptTx

\* return err (the deferred function finds nothing to recover).
Return ==
    /\ pc = "return"
    /\ ret' = err
    /\ pc' = "done"
    /\ UNCHANGED <<api, ops, committed, before, pending, tx, txState, i, err,
                   opErr, stamp, qargs, log>>
    /\ UNCHANGED exceptTx

PoolIdle ==
    /\ db = 0
    /\ onceDone = 0
    /\ onceLock = 0
    /\ cpc = [c \in Callers |-> "idle"]
    /\ cerr = [c \in Callers |-> "nil"]
    /\ cret = [c \in Callers |-> <<"unset", "unset">>]
    /\ initRuns = 0
    /\ initEnded = 0
    /\ ranInit = [c \in Callers |-> FALSE]

NextTx ==
    \/ CallMultiple
    \/ CallSingle
    \/ Begin
    \/ LoopNil
    \/ LoopOp
    \/ LoopQuery
    \/ LoopEnd
    \/ PreOp
    \/ Args
    \/ Exec
    \/ RowsAffected
    \/ OpsReturn
    \/ Commit
    \/ RollbackOnError
    \/ Recover
    \/ Return

\* The fragment generator before any call.
\* A *data.Cursor; the nil pointer is the cursor with ID 0. An ID is a string
\* in the program; the model numbers the IDs in their string order and
\* ToString gives the text of one.
NilCursor == [ID |-> 0, Timestamp |-> 0]

NoFragment == [pred |-> <<>>, clause |-> [order |-> "", limit |-> 0]]

NoArgs == <<0>>

PageIdle ==
    /\ page = [Next |-> NilCursor, Previous |-> NilCursor]
    /\ appendFlag = FALSE
    /\ pageSize = RegularPageSize
    /\ fragment = NoFragment
    /\ bindArgs = NoArgs

\* A nil *data.BasePaginateable.
NoRow == [id |-> 0, createdAt |-> 0]

\* No sweep under way.
SweepIdle ==
    /\ table = {}
    /\ startRows = {}
    /\ sweepSize = RegularPageSize
    /\ sweepAppend = FALSE
    /\ sweepPage = [Next |-> NilCursor, Previous |-> NilCursor]
    /\ spc = "idle"
    /\ testData = <<>>
    /\ oppositeOrder = <<>>
    /\ absLastData = NoRow
    /\ forwardFetches = 0
    /\ reverseFetches = 0

\* A query whose result set ends after its rows.
EmptyResult ==
    [queryFails |-> FALSE, rows |-> <<>>, iterErr |-> FALSE, panicAt |-> 0]

\* No query helper called.
RowsIdle ==
    /\ qapi = "none"
    /\ result = EmptyResult
    /\ qpc = "idle"
    /\ fetched = 0
    /\ argCalls = 0
    /\ scanCalls = 0
    /\ scans = 0
    /\ closed = 0
    /\ qret = Unset

\* A URL: its path and the values of the two cursor parameters of its query
\* (<<>>: the parameter is absent or empty).
URL(path, previous, next) ==
    [path |-> path, query |-> [previous |-> previous, next |-> next]]

\* No request handled.
LinksIdle ==
    /\ lrows = <<NoRow, NoRow>>
    /\ lpage = <<>>
    /\ lreq = URL("/", <<>>, <<>>)
    /\ links = <<>>
    /\ parsed = [Next |-> NilCursor, Previous |-> NilCursor]
    /\ lpc = "idle"

\* No response under way.
JSONIdle ==
    /\ jdata = [payload |-> 0, encodes |-> TRUE]
    /\ jpc = "idle"
    /\ jheader = {}
    /\ jstatus = 0
    /\ jsent = {}
    /\ jbody = <<>>

\* &Config{}: the configuration returned with an error.
EmptyConfigurationForError == [DBDialect |-> "", HTTPListeningAddr |-> ""]

\* Neither ConfigureAPI nor GetConfiguration called.
APIIdle ==
    /\ confIn = [loads |-> TRUE, dialect |-> "sqlite3", addr |-> "",
                 listens |-> TRUE, opens |-> TRUE, ping |-> "nil"]
    /\ confPc = "idle"
    /\ conf = EmptyConfigurationForError
    /\ confErr = "unset"
    /\ servePc = "idle"
    /\ exitPc = "idle"
    /\ srv = "new"
    /\ stop = 0
    /\ signals = 0
    /\ requests = 0
    /\ events = <<>>

\* The query helpers and the controller before any call.
FrontIdle == RowsIdle /\ LinksIdle /\ JSONIdle /\ APIIdle

\* Everything but the transaction executor before any call.
OthersIdle == PoolIdle /\ PageIdle /\ SweepIdle /\ FrontIdle

InitTx == TxInit /\ OthersIdle

SpecTx == InitTx /\ [][NextTx]_vars

\* ------------------------------------------ the connection pool initialiser

\* The package variable db holds 0 for nil, else the handle of the pool: the
\* number of the initialisation run that created it.
NilDB == 0

\* GetConfiguredConnectionPool is called: var err error = nil.  A caller that
\* has returned may call again.
GetPool(c) ==
    /\ cpc[c] \in {"idle", "returned"}
    /\ cerr' = [cerr EXCEPT ![c] = "nil"]
    /\ cret' = [cret EXCEPT ![c] = <<"unset", "unset">>]
    /\ cpc' = [cpc EXCEPT ![c] = "onceCheck"]
    /\ ranInit' = [ranInit EXCEPT ![c] = FALSE]
    /\ UNCHANGED <<db, onceDone, onceLock, initRuns, initEnded>>
    /\ UNCHANGED exceptPool

\* dataAccessorInitializer.Do(f), fast path: if the done flag is set, Do
\* returns at once; otherwise the caller goes for the mutex.
OnceCheck(c) ==
    /\ cpc[c] = "onceCheck"
    /\ cpc' = [cpc EXCEPT ![c] = IF onceDone = 1 THEN "afterDo" ELSE "onceLock"]
    /\ UNCHANGED <<db, onceDone, onceLock, cerr, cret, initRuns, initEnded,
                   ranInit>>
    /\ UNCHANGED exceptPool

\* Do, slow path: the caller takes the mutex once it is free.
OnceLock(c) ==
    /\ cpc[c] = "onceLock"
    /\ onceLock = 0
    /\ onceLock' = c
    /\ cpc' = [cpc EXCEPT ![c] = "onceRecheck"]
    /\ UNCHANGED <<db, onceDone, cerr, cret, initRuns, initEnded,
                   ranInit>>
    /\ UNCHANGED exceptPool

\* Mutant: the done flag is not looked at again under the mutex.
OnceRecheck_NoRecheck(c) ==
    /\ cpc[c] = "onceRecheck"
    /\ initRuns' = initRuns + 1
    /\ ranInit' = [ranInit EXCEPT ![c] = TRUE]
    /\ cpc' = [cpc EXCEPT ![c] = "create"]
    /\ UNCHANGED <<db, onceDone, onceLock, cerr, cret, initEnded>>
    /\ UNCHANGED exceptPool

\* Do, slow path: under the mutex the done flag is read again, and f is
\* called only if it is still unset.
OnceRecheck(c) ==
    /\ cpc[c] = "onceRecheck"
    /\ IF onceDone = 0
          THEN /\ initRuns' = initRuns + 1
               /\ ranInit' = [ranInit EXCEPT ![c] = TRUE]
               /\ cpc' = [cpc EXCEPT ![c] = "create"]
          ELSE /\ cpc' = [cpc EXCEPT ![c] = "onceUnlock"]
               /\ UNCHANGED <<initRuns, ranInit>>
    /\ UNCHANGED <<db, onceDone, onceLock, cerr, cret, initEnded>>
    /\ UNCHANGED exceptPool

\* db, err = CreateDBConnectionPool(dbConfig): sql.Open yields a pool and nil,
\* or nil and an error; the migration runs only if err == nil.
CreatePool(c) ==
    /\ cpc[c] = "create"
    /\ \/ /\ db' = initRuns
          /\ cerr' = [cerr EXCEPT ![c] = "nil"]
          /\ cpc' = [cpc EXCEPT ![c] = "migrate"]
       \/ /\ db' = NilDB
          /\ cerr' = [cerr EXCEPT ![c] = "openErr"]
          /\ cpc' = [cpc EXCEPT ![c] = "onceStore"]
    /\ UNCHANGED <<onceDone, onceLock, cret, initRuns, initEnded,
                   ranInit>>
    /\ UNCHANGED exceptPool

\* runMigration: nothing to do when migration is disabled; else the first
\* error of getMigrationDriver, getMigration and Up is returned, except that
\* Up's migrate.ErrNoChange is no error.
runMigration(enabled, driverErr, migrationErr, upErr) ==
    IF ~enabled THEN "nil"
    ELSE IF driverErr # "nil" THEN driverErr
    ELSE IF migrationErr # "nil" THEN migrationErr
    ELSE IF upErr # "nil" /\ upErr # "ErrNoChange" THEN upErr
    ELSE "nil"

\* err = runMigration(db, dbConfig, migrationConf)
Migrate(c) ==
    /\ cpc[c] = "migrate"
    /\ \E enabled \in BOOLEAN, d \in {"nil", "driverErr"},
          g \in {"nil", "migrationErr"}, u \in {"nil", "ErrNoChange", "upErr"} :
          cerr' = [cerr EXCEPT ![c] = runMigration(enabled, d, g, u)]
    /\ cpc' = [cpc EXCEPT ![c] = "onceStore"]
    /\ UNCHANGED <<db, onceDone, onceLock, cret, initRuns, initEnded,
                   ranInit>>
    /\ UNCHANGED exceptPool

\* Do, slow path: f has returned; the deferred done.Store(1).
OnceStore(c) ==
    /\ cpc[c] = "onceStore"
    /\ onceDone' = 1
    /\ initEnded' = initEnded + 1
    /\ cpc' = [cpc EXCEPT ![c] = "onceUnlock"]
    /\ UNCHANGED <<db, onceLock, cerr, cret, initRuns,
                   ranInit>>
    /\ UNCHANGED exceptPool

\* Do, slow path: the deferred m.Unlock(); Do returns.
OnceUnlock(c) ==
    /\ cpc[c] = "onceUnlock"
    /\ onceLock' = 0
    /\ cpc' = [cpc EXCEPT ![c] = "afterDo"]
    /\ UNCHANGED <<db, onceDone, cerr, cret, initRuns, initEnded,
                   ranInit>>
    /\ UNCHANGED exceptPool

\* Mutant: the sentinel is never substituted.
ReturnedErr_NoSentinel(d, e) == e

\* if db == nil && err == nil { err = errDBConnectionNeverInitialized }
ReturnedErr(d, e) ==
    IF d = NilDB /\ e = "nil" THEN "errDBConnectionNeverInitialized" ELSE e

\* The check after Do, and return db, err.
ReturnPool(c) ==
    /\ cpc[c] = "afterDo"
    /\ LET e == ReturnedErr(db, cerr[c])
       IN  /\ cerr' = [cerr EXCEPT ![c] = e]
           /\ cret' = [cret EXCEPT ![c] = <<db, e>>]
    /\ cpc' = [cpc EXCEPT ![c] = "returned"]
    /\ UNCHANGED <<db, onceDone, onceLock, initRuns, initEnded,
                   ranInit>>
    /\ UNCHANGED exceptPool

NextPool ==
    \E c \in Callers :
        \/ GetPool(c)
        \/ OnceCheck(c)
        \/ OnceLock(c)
        \/ OnceRecheck(c)
        \/ CreatePool(c)
        \/ Migrate(c)
        \/ OnceStore(c)
        \/ OnceUnlock(c)
        \/ ReturnPool(c)

InitPool == TxInit /\ OthersIdle

SpecPool == InitPool /\ [][NextPool]_vars

\* ------------------------------------------- the query fragment generator

Cursors == [ID : 1..MaxCursorId, Timestamp : 1..MaxCursorTime]

Paginations ==
    [Next : Cursors \cup {NilCursor}, Previous : Cursors \cup {NilCursor}]

\* The PageSizeEnum values a caller can pass: the four tiers and a value that
\* is none of them.
PageSizes ==
    {RegularPageSize, MediumPageSize, LargePageSize, ExtraLargePageSize, 0}

\* The order-by clauses: the ordering text and the number after " LIMIT ".
baseOrderByClause == "ORDER BY createdAt desc, id desc"

pageSizeWithOrder == [order |-> baseOrderByClause, limit |-> 25]

mediumPageSizeWithOrder == [order |-> baseOrderByClause, limit |-> 50]

largePageSizeWithOrder == [order |-> baseOrderByClause, limit |-> 100]

extraLargePageSizeWithOrder == [order |-> baseOrderByClause, limit |-> 500]

baseOrderByClauseOpposite == "ORDER BY createdAt asc, id asc"

pageSizeWithOrderOpposite == [order |-> baseOrderByClauseOpposite, limit |-> 25]

mediumPageSizeWithOrderOpposite ==
    [order |-> baseOrderByClauseOpposite, limit |-> 50]

largePageSizeWithOrderOpposite ==
    [order |-> baseOrderByClauseOpposite, limit |-> 100]

extraLargePageSizeWithOrderOpposite ==
    [order |-> baseOrderByClauseOpposite, limit |-> 500]

\* ExpectedMaxRowCount[size]; a key the map does not hold reads as 0.
ExpectedMaxRowCount(size) ==
    CASE size = ExtraLargePageSize -> 500
      [] size = LargePageSize -> 100
      [] size = MediumPageSize -> 50
      [] size = RegularPageSize -> 25
      [] OTHER -> 0

DescendingClause_Ascending(size) ==
    CASE size = ExtraLargePageSize -> extraLargePageSizeWithOrderOpposite
      [] size = LargePageSize -> largePageSizeWithOrderOpposite
      [] size = MediumPageSize -> mediumPageSizeWithOrderOpposite
      [] size = RegularPageSize -> pageSizeWithOrderOpposite
      [] OTHER -> pageSizeWithOrderOpposite

\* The first switch on pageSize.
DescendingClause(size) ==
    CASE size = ExtraLargePageSize -> extraLargePageSizeWithOrder
      [] size = LargePageSize -> largePageSizeWithOrder
      [] size = MediumPageSize -> mediumPageSizeWithOrder
      [] size = RegularPageSize -> pageSizeWithOrder
      [] OTHER -> pageSizeWithOrder

AscendingClause_RegularOnly(size) == pageSizeWithOrderOpposite

AscendingClause_Descending(size) == DescendingClause(size)

\* The switch on pageSize in the Previous branch.
AscendingClause(size) ==
    CASE size = ExtraLargePageSize -> extraLargePageSizeWithOrderOpposite
      [] size = LargePageSize -> largePageSizeWithOrderOpposite
      [] size = MediumPageSize -> mediumPageSizeWithOrderOpposite
      [] size = RegularPageSize -> pageSizeWithOrderOpposite
      [] OTHER -> pageSizeWithOrderOpposite

LeadingKeyword_Swapped(append) == IF append THEN "WHERE " ELSE "AND "

\* query + "AND " or query + "WHERE "
LeadingKeyword(append) == IF append THEN "AND " ELSE "WHERE "

GetPaginationQueryFragmentWithConfigurablePageSize_PreviousFirst(pg, append, size) ==
    IF pg.Previous # NilCursor
        THEN [pred |-> <<" ", LeadingKeyword(append), "id > '",
                         ToString(pg.Previous.ID), "' ",
                         "AND createdAt >= ? ">>,
              clause |-> AscendingClause(size)]
        ELSE IF pg.Next # NilCursor
                THEN [pred |-> <<" ", LeadingKeyword(append), "id < '",
                                 ToString(pg.Next.ID), "' ",
                                 "AND createdAt <= ? ">>,
                      clause |-> DescendingClause(size)]
                ELSE [pred |-> <<" ">>, clause |-> DescendingClause(size)]

GetPaginationQueryFragmentWithConfigurablePageSize_NextLooksUp(pg, append, size) ==
    IF pg.Next # NilCursor
        THEN [pred |-> <<" ", LeadingKeyword(append), "id > '",
                         ToString(pg.Next.ID), "' ", "AND createdAt <= ? ">>,
              clause |-> DescendingClause(size)]
        ELSE IF pg.Previous # NilCursor
                THEN [pred |-> <<" ", LeadingKeyword(append), "id > '",
                                 ToString(pg.Previous.ID), "' ",
                                 "AND createdAt >= ? ">>,
                      clause |-> AscendingClause(size)]
                ELSE [pred |-> <<" ">>, clause |-> DescendingClause(size)]

\* The returned string: pred is the sequence of the pieces concatenated into
\* query, in order (a cursor's ID is a piece of its own), and clause is the
\* order-by clause concatenated last.
GetPaginationQueryFragmentWithConfigurablePageSize(pg, append, size) ==
    IF pg.Next # NilCursor
        THEN [pred |-> <<" ", LeadingKeyword(append), "id < '",
                         ToString(pg.Next.ID), "' ", "AND createdAt <= ? ">>,
              clause |-> DescendingClause(size)]
        ELSE IF pg.Previous # NilCursor
                THEN [pred |-> <<" ", LeadingKeyword(append), "id > '",
                                 ToString(pg.Previous.ID), "' ", "AND createdAt >= ? ">>,
                      clause |-> AscendingClause(size)]
                ELSE [pred |-> <<" ">>, clause |-> DescendingClause(size)]

\* The number of '?' in a fragment: the pieces that hold one.
Placeholders(frag) ==
    Cardinality({k \in DOMAIN frag.pred :
                    frag.pred[k] \in {"AND createdAt <= ? ",
                                      "AND createdAt >= ? "}})

\* times := make([]interface{}, 0, 2), then one append for each cursor set.
GetPaginationTimestampQueryArgs(pg) ==
    (IF pg.Next # NilCursor THEN <<pg.Next.Timestamp>> ELSE <<>>)
        \o (IF pg.Previous # NilCursor THEN <<pg.Previous.Timestamp>> ELSE <<>>)

PageInit ==
    /\ page \in Paginations
    /\ appendFlag \in BOOLEAN
    /\ pageSize \in PageSizes
    /\ fragment = NoFragment
    /\ bindArgs = NoArgs

\* The caller builds the fragment for its Pagination.
BuildFragment ==
    /\ fragment = NoFragment
    /\ fragment' =
          GetPaginationQueryFragmentWithConfigurablePageSize(page, appendFlag,
                                                             pageSize)
    /\ UNCHANGED <<page, appendFlag, pageSize, bindArgs>>
    /\ UNCHANGED exceptPage

\* The caller builds the bind values for the same Pagination.
BuildArgs ==
    /\ bindArgs = NoArgs
    /\ bindArgs' = GetPaginationTimestampQueryArgs(page)
    /\ UNCHANGED <<page, appendFlag, pageSize, fragment>>
    /\ UNCHANGED exceptPage

NextPage == BuildFragment \/ BuildArgs

\* The transaction executor before any call, on an empty database.
TxQuiet == TxInit /\ committed = {}

InitPage == TxQuiet /\ PoolIdle /\ PageInit /\ SweepIdle /\ FrontIdle

SpecPage == InitPage /\ [][NextPage]_vars

\* ------------------------------------------------------ the page sweeps

\* Table test with n rows: the ids are 1..n in insertion order and each
\* group of tie consecutive rows was created at the same instant, so the id
\* order agrees with the createdAt order.
TableOf(n, tie) == {[id |-> k, createdAt |-> (k + tie - 1) \div tie] : k \in 1..n}

Tables == {TableOf(n, tie) : n \in 0..MaxTableRows, tie \in 1..MaxTie}

\* The tiers the test sweeps with.
SweepSizes ==
    {RegularPageSize, MediumPageSize, LargePageSize, ExtraLargePageSize}

\* The id a quoted piece of the predicate denotes.
IdOf(text) ==
    CHOOSE n \in 0..(MaxTableRows + MaxInserts + 1) : ToString(n) = text

\* What the database does with base query + fragment and the bind values:
\* keep the rows the predicate admits (the '?' is bound to the first value),
\* order them as the clause says, cut at LIMIT.
Admits(frag, cursorId, args, r) ==
    IF Len(frag.pred) = 1
        THEN TRUE
        ELSE IF frag.pred[3] = "id < '"
                THEN r.id < cursorId /\ r.createdAt <= args[1]
                ELSE r.id > cursorId /\ r.createdAt >= args[1]

Precedes(order, a, b) ==
    IF order = baseOrderByClause
        THEN \/ a.createdAt > b.createdAt
             \/ a.createdAt = b.createdAt /\ a.id > b.id
        ELSE \/ a.createdAt < b.createdAt
             \/ a.createdAt = b.createdAt /\ a.id < b.id

Select(tbl, frag, args) ==
    LET cursorId == IF Len(frag.pred) = 1 THEN 0 ELSE IdOf(frag.pred[4])
        admitted == {r \in tbl : Admits(frag, cursorId, args, r)}
        ranked == {<<Cardinality({q \in admitted :
                                     Precedes(frag.clause.order, q, r)}), r>> :
                      r \in admitted}
        n == IF Cardinality(admitted) < frag.clause.limit
                THEN Cardinality(admitted)
                ELSE frag.clause.limit
    IN  [k \in 1..n |-> (CHOOSE pair \in ranked : pair[1] = k - 1)[2]]

\* data.NewPagination(first, last): Next from first, Previous from last.
CursorOf(row) ==
    IF row = NoRow THEN NilCursor
    ELSE [ID |-> row.id, Timestamp |-> row.createdAt]

NewPagination(first, last) ==
    [Next |-> CursorOf(first), Previous |-> CursorOf(last)]

\* One query of a loop: QueryRows with the fragment and the bind values of
\* the current page; the scan provider sees every row of the result.
PageRows ==
    Select(table,
           GetPaginationQueryFragmentWithConfigurablePageSize(
               sweepPage, sweepAppend, sweepSize),
           GetPaginationTimestampQueryArgs(sweepPage))

SweepInit ==
    /\ table \in Tables
    /\ startRows = table
    /\ sweepSize \in SweepSizes
    /\ sweepAppend \in BOOLEAN
    /\ sweepPage = [Next |-> NilCursor, Previous |-> NilCursor]
    /\ spc = "forward"
    /\ testData = <<>>
    /\ oppositeOrder = <<>>
    /\ absLastData = NoRow
    /\ forwardFetches = 0
    /\ reverseFetches = 0

\* One iteration of the forward loop.
FetchForward ==
    /\ spc = "forward"
    /\ LET rows == PageRows
           thisPageCount == Len(rows)
       IN  /\ testData' = testData \o rows
           /\ absLastData' =
                 IF thisPageCount > 0 THEN rows[thisPageCount] ELSE absLastData
           /\ IF thisPageCount < ExpectedMaxRowCount(sweepSize)
                 THEN /\ spc' = "turn"
                      /\ sweepPage' = sweepPage
                 ELSE /\ spc' = "forward"
                      /\ sweepPage' = NewPagination(rows[thisPageCount], NoRow)
    /\ forwardFetches' = forwardFetches + 1
    /\ UNCHANGED <<table, startRows, sweepSize, sweepAppend, oppositeOrder,
                   reverseFetches>>
    /\ UNCHANGED exceptSweep

\* Between the loops: page = data.NewPagination(nil, absLastData).
TurnAround ==
    /\ spc = "turn"
    /\ sweepPage' = NewPagination(NoRow, absLastData)
    /\ spc' = "reverse"
    /\ UNCHANGED <<table, startRows, sweepSize, sweepAppend, testData, oppositeOrder,
                   absLastData, forwardFetches, reverseFetches>>
    /\ UNCHANGED exceptSweep

\* One iteration of the backward loop.
FetchReverse ==
    /\ spc = "reverse"
    /\ LET rows == PageRows
           thisPageCount == Len(rows)
       IN  /\ oppositeOrder' = oppositeOrder \o rows
           /\ IF thisPageCount < ExpectedMaxRowCount(sweepSize)
                 THEN /\ spc' = "done"
                      /\ sweepPage' = sweepPage
                 ELSE /\ spc' = "reverse"
                      /\ sweepPage' = NewPagination(NoRow, rows[thisPageCount])
    /\ reverseFetches' = reverseFetches + 1
    /\ UNCHANGED <<table, startRows, sweepSize, sweepAppend, testData, absLastData,
                   forwardFetches>>
    /\ UNCHANGED exceptSweep

\* Another writer inserts a row between two queries of the forward loop: its
\* id is above every id of the table and its createdAt is the latest of the
\* table or later.
InsertRow ==
    /\ spc = "forward"
    /\ forwardFetches >= 1
    /\ Cardinality(table) < Cardinality(startRows) + MaxInserts
    /\ LET n == Cardinality(table)
           latest == IF n = 0 THEN 1
                     ELSE (CHOOSE r \in table : r.id = n).createdAt
       IN  \E t \in {latest, latest + 1} :
               table' = table \cup {[id |-> n + 1, createdAt |-> t]}
    /\ UNCHANGED <<startRows, sweepSize, sweepAppend, sweepPage, spc, testData,
                   oppositeOrder, absLastData, forwardFetches, reverseFetches>>
    /\ UNCHANGED exceptSweep

NextSweep == FetchForward \/ TurnAround \/ FetchReverse

InitSweep == TxQuiet /\ PoolIdle /\ PageIdle /\ SweepInit /\ FrontIdle

SpecSweep == InitSweep /\ [][NextSweep]_vars

\* The forward loop with a concurrent writer, for the tiers that take more
\* than one query over these tables.
NextSweepWithInserts == FetchForward \/ InsertRow

InitSweepWithInserts ==
    /\ InitSweep
    /\ sweepSize \in {RegularPageSize, MediumPageSize}
    /\ ~sweepAppend

SpecSweepWithInserts == InitSweepWithInserts /\ [][NextSweepWithInserts]_vars

\* ------------------------------------------------------ the query helpers

QueryErr == [e |-> "queryErr", at |-> 0]

ScanErr(k) == [e |-> "scanErr", at |-> k]

IterationErr == [e |-> "rows.Err()", at |-> 0]

ErrNoRows == [e |-> "sql.ErrNoRows", at |-> 0]

\* What a call can meet: the query fails or opens a result set; the result
\* set delivers rows, each of which Scan accepts ("ok") or rejects ("bad"),
\* and then ends, cleanly or with an iteration error; the scan provider
\* panics at its panicAt-th call (0: never).
Results ==
    [queryFails : BOOLEAN,
     rows : UNION {[1..n -> {"ok", "bad"}] : n \in 0..MaxResultRows},
     iterErr : BOOLEAN,
     panicAt : 0..MaxResultRows]

RowsInit ==
    /\ qapi \in {"QueryRows", "QuerySingleRow"}
    /\ result \in Results
    /\ qpc = "call"
    /\ fetched = 0
    /\ argCalls = 0
    /\ scanCalls = 0
    /\ scans = 0
    /\ closed = 0
    /\ qret = Unset

\* rows, err := db.Query(query, queryArgs()...); if err != nil { return err }
QueryRowsCall ==
    /\ qapi = "QueryRows" /\ qpc = "call"
    /\ argCalls' = argCalls + 1
    /\ IF result.queryFails
          THEN qret' = QueryErr /\ qpc' = "returned"
          ELSE qret' = qret /\ qpc' = "next"
    /\ UNCHANGED <<qapi, result, fetched, scanCalls, scans, closed>>
    /\ UNCHANGED exceptRows

\* for rows.Next() { ... } return err: when the result set has no further
\* row, whether it ended or broke, the loop ends and err, nil here, is
\* returned.
RowsNext ==
    /\ qpc = "next"
    /\ IF fetched < Len(result.rows)
          THEN fetched' = fetched + 1 /\ qpc' = "provider" /\ qret' = qret
          ELSE fetched' = fetched /\ qpc' = "close" /\ qret' = NoErr
    /\ UNCHANGED <<qapi, result, argCalls, scanCalls, scans, closed>>
    /\ UNCHANGED exceptRows

RowsProvider_FirstRowOnly ==
    /\ qpc = "provider"
    /\ scanCalls' = IF scanCalls = 0 THEN 1 ELSE scanCalls
    /\ qpc' = IF scanCalls + 1 = result.panicAt THEN "unwind" ELSE "scan"
    /\ UNCHANGED <<qapi, result, fetched, argCalls, scans, closed, qret>>
    /\ UNCHANGED exceptRows

\* scanArgs(), evaluated before Scan is called; it may panic.
RowsProvider ==
    /\ qpc = "provider"
    /\ scanCalls' = scanCalls + 1
    /\ qpc' = IF scanCalls + 1 = result.panicAt THEN "unwind" ELSE "scan"
    /\ UNCHANGED <<qapi, result, fetched, argCalls, scans, closed, qret>>
    /\ UNCHANGED exceptRows

RowsScan_NoEarlyReturn ==
    /\ qpc = "scan"
    /\ scans' = scans + 1
    /\ qpc' = "next"
    /\ qret' = IF result.rows[fetched] = "bad" THEN ScanErr(fetched) ELSE qret
    /\ UNCHANGED <<qapi, result, fetched, argCalls, scanCalls, closed>>
    /\ UNCHANGED exceptRows

\* err = rows.Scan(...); if err != nil { return err }
RowsScan ==
    /\ qpc = "scan"
    /\ scans' = scans + 1
    /\ IF result.rows[fetched] = "bad"
          THEN qret' = ScanErr(fetched) /\ qpc' = "close"
          ELSE qret' = qret /\ qpc' = "next"
    /\ UNCHANGED <<qapi, result, fetched, argCalls, scanCalls, closed>>
    /\ UNCHANGED exceptRows

\* defer func() { rows.Close() }(), on a return and on a panic.
RowsClose ==
    /\ qpc \in {"close", "unwind"}
    /\ closed' = closed + 1
    /\ qpc' = IF qpc = "unwind" THEN "panicked" ELSE "returned"
    /\ UNCHANGED <<qapi, result, fetched, argCalls, scanCalls, scans, qret>>
    /\ UNCHANGED exceptRows

\* row := db.QueryRow(query, queryArgs()...): the error of the query, if
\* any, is kept in row.
SingleRowCall ==
    /\ qapi = "QuerySingleRow" /\ qpc = "call"
    /\ argCalls' = argCalls + 1
    /\ qpc' = "singleProvider"
    /\ UNCHANGED <<qapi, result, fetched, scanCalls, scans, closed, qret>>
    /\ UNCHANGED exceptRows

\* scanArgs(), evaluated before row.Scan is called; a panic leaves
\* QuerySingleRow at once.
SingleRowProvider ==
    /\ qpc = "singleProvider"
    /\ scanCalls' = scanCalls + 1
    /\ qpc' = IF scanCalls + 1 = result.panicAt THEN "panicked" ELSE "singleScan"
    /\ UNCHANGED <<qapi, result, fetched, argCalls, scans, closed, qret>>
    /\ UNCHANGED exceptRows

\* return row.Scan(...): the error of the query; else, with the result set
\* closed on the way out, the iteration error or sql.ErrNoRows when there is
\* no row, or what scanning the first row gives.
SingleRowScan ==
    /\ qpc = "singleScan"
    /\ scans' = scans + 1
    /\ IF result.queryFails
          THEN qret' = QueryErr /\ fetched' = fetched /\ closed' = closed
          ELSE /\ closed' = closed + 1
               /\ IF Len(result.rows) = 0
                     THEN /\ fetched' = fetched
                          /\ qret' = IF result.iterErr THEN IterationErr
                                     ELSE ErrNoRows
                     ELSE /\ fetched' = fetched + 1
                          /\ qret' = IF result.rows[1] = "bad" THEN ScanErr(1)
                                     ELSE NoErr
    /\ qpc' = "returned"
    /\ UNCHANGED <<qapi, result, argCalls, scanCalls>>
    /\ UNCHANGED exceptRows

NextRows ==
    \/ QueryRowsCall
    \/ RowsNext
    \/ RowsProvider
    \/ RowsScan
    \/ RowsClose
    \/ SingleRowCall
    \/ SingleRowProvider
    \/ SingleRowScan

\* The transaction executor, the pool and the pagination before any call.
StorageIdle == TxQuiet /\ PoolIdle /\ PageIdle /\ SweepIdle

InitRows == StorageIdle /\ RowsInit /\ LinksIdle /\ JSONIdle /\ APIIdle

SpecRows == InitRows /\ [][NextRows]_vars

\* --------------------------------------------------- the pagination links

\* (*Cursor).String(): the token of a cursor, a text of three parts.
CursorString(c) == <<ToString(c.ID), "|", ToString(c.Timestamp)>>

\* The tokens a request can carry: the token of a cursor, an empty value and
\* texts that are no token.
Tokens ==
    {CursorString(c) : c \in Cursors} \cup {<<>>, <<"x">>, <<"1", "|", "x">>}

\* data.ParseCursor(token): the cursor the token was made from, or an error
\* when the text is not the token of any cursor.
ParseCursor(token) ==
    IF \E c \in Cursors : CursorString(c) = token
        THEN [cursor |-> CHOOSE c \in Cursors : CursorString(c) = token,
              err |-> "nil"]
        ELSE [cursor |-> NilCursor, err |-> "cursor format error"]

\* One cursor parameter of GetPagination: parsed when present, kept when the
\* parse gave no error.
CursorParam(token) ==
    IF Len(token) > 0 /\ ParseCursor(token).err = "nil"
        THEN ParseCursor(token).cursor
        ELSE NilCursor

GetPagination_StopsAtBadPrevious(req) ==
    IF Len(req.query.previous) > 0 /\ ParseCursor(req.query.previous).err # "nil"
        THEN [Next |-> NilCursor, Previous |-> NilCursor]
        ELSE [Next |-> CursorParam(req.query.next),
              Previous |-> CursorParam(req.query.previous)]

GetPagination(req) ==
    [Next |-> CursorParam(req.query.next),
     Previous |-> CursorParam(req.query.previous)]

cloneBaseURL_KeepsQuery(originalURL) == originalURL

\* Scheme, Host, Path and RawPath are copied, the query is not.
cloneBaseURL(originalURL) == URL(originalURL.path, <<>>, <<>>)

\* The key "previous" is in the map when Previous is set.
PreviousLink(req, pg) ==
    IF pg.Previous # NilCursor
        THEN [k \in {"previous"} |->
                 [cloneBaseURL(req) EXCEPT
                     !.query.previous = CursorString(pg.Previous)]]
        ELSE <<>>

NextLink_Always(req, pg) ==
    [k \in {"next"} |->
        [cloneBaseURL(req) EXCEPT !.query.next = CursorString(pg.Next)]]

\* The key "next" is in the map when Next is set.
NextLink(req, pg) ==
    IF pg.Next # NilCursor
        THEN [k \in {"next"} |->
                 [cloneBaseURL(req) EXCEPT
                     !.query.next = CursorString(pg.Next)]]
        ELSE <<>>

GetPaginationLinks(req, pagination) ==
    IF pagination # <<>>
        THEN PreviousLink(req, pagination[1]) @@ NextLink(req, pagination[1])
        ELSE <<>>

\* The rows a handler can build its Pagination from.
BoundaryRows == [id : 1..MaxCursorId, createdAt : 1..MaxCursorTime]

LinksInit ==
    /\ lrows \in (BoundaryRows \cup {NoRow}) \X (BoundaryRows \cup {NoRow})
    /\ lpage = <<>>
    /\ lreq \in {URL("/client", pv, nx) : pv \in Tokens, nx \in Tokens}
    /\ links = <<>>
    /\ parsed = [Next |-> NilCursor, Previous |-> NilCursor]
    /\ lpc = "request"

\* The handler reads the cursors of the request.
ReadRequest ==
    /\ lpc = "request"
    /\ parsed' = GetPagination(lreq)
    /\ lpc' = "read"
    /\ UNCHANGED <<lrows, lpage, lreq, links>>
    /\ UNCHANGED exceptLinks

\* The handler builds the Pagination of its response from boundary rows.
BuildPagination ==
    /\ lpc = "read"
    /\ lpage' = <<NewPagination(lrows[1], lrows[2])>>
    /\ lpc' = "paged"
    /\ UNCHANGED <<lrows, lreq, links, parsed>>
    /\ UNCHANGED exceptLinks

\* The handler has no Pagination for its response.
NoPagination ==
    /\ lpc = "read"
    /\ lpage' = <<>>
    /\ lpc' = "paged"
    /\ UNCHANGED <<lrows, lreq, links, parsed>>
    /\ UNCHANGED exceptLinks

\* The handler builds the links of its response.
BuildLinks ==
    /\ lpc = "paged"
    /\ links' = GetPaginationLinks(lreq, lpage)
    /\ lpc' = "linked"
    /\ UNCHANGED <<lrows, lpage, lreq, parsed>>
    /\ UNCHANGED exceptLinks

\* The client requests one of the links and the handler reads its cursors.
FollowLink(key) ==
    /\ lpc = "linked"
    /\ key \in DOMAIN links
    /\ lreq' = links[key]
    /\ parsed' = GetPagination(lreq')
    /\ lpc' = key
    /\ UNCHANGED <<lrows, lpage, links>>
    /\ UNCHANGED exceptLinks

FollowNext == FollowLink("next")

FollowPrevious == FollowLink("previous")

NextLinks ==
    \/ ReadRequest
    \/ BuildPagination
    \/ NoPagination
    \/ BuildLinks
    \/ FollowNext
    \/ FollowPrevious

InitLinks == StorageIdle /\ RowsIdle /\ LinksInit /\ JSONIdle /\ APIIdle

SpecLinks == InitLinks /\ [][NextLinks]_vars

\* ------------------------------------------------------------- WriteJSON

\* A header line of the response.
HeaderLine(name, value) == [name |-> name, value |-> value]

\* What the handlers before WriteJSON may have put into w.Header().
PresetHeaders ==
    {HeaderLine("X-Request-ID", "id"), HeaderLine("Last-Modified", "date")}

JSONInit ==
    /\ jdata \in [payload : 1..MaxPayload, encodes : BOOLEAN]
    /\ jpc = "encode"
    /\ jheader \in SUBSET PresetHeaders
    /\ jstatus = 0
    /\ jsent = {}
    /\ jbody = <<>>

\* err := getJSON(&buf, data)
EncodeJSON ==
    /\ jpc = "encode"
    /\ jpc' = IF jdata.encodes THEN "status" ELSE "error"
    /\ UNCHANGED <<jdata, jheader, jstatus, jsent, jbody>>
    /\ UNCHANGED exceptJSON

\* WriteErr(w, err): w.WriteHeader(500), then the text of the error.
WriteErr ==
    /\ jpc = "error"
    /\ jstatus' = 500
    /\ jsent' = jheader
    /\ jbody' = <<"error", "json error">>
    /\ jpc' = "done"
    /\ UNCHANGED <<jdata, jheader>>
    /\ UNCHANGED exceptJSON

\* w.WriteHeader(200): the status is committed with the headers the map
\* holds at this moment.
WriteHeaderOK ==
    /\ jpc = "status"
    /\ jstatus' = 200
    /\ jsent' = jheader
    /\ jpc' = "contentType"
    /\ UNCHANGED <<jdata, jheader, jbody>>
    /\ UNCHANGED exceptJSON

\* w.Header().Add(HeaderContentType, JSONContentTypeHeaderValue): the map
\* changes; what was committed does not.
AddContentType ==
    /\ jpc = "contentType"
    /\ jheader' = jheader \cup {HeaderLine("Content-Type", "application/json")}
    /\ jpc' = "body"
    /\ UNCHANGED <<jdata, jstatus, jsent, jbody>>
    /\ UNCHANGED exceptJSON

\* w.Write(buf.Bytes())
WriteBody ==
    /\ jpc = "body"
    /\ jbody' = <<"json", jdata.payload>>
    /\ jpc' = "done"
    /\ UNCHANGED <<jdata, jheader, jstatus, jsent>>
    /\ UNCHANGED exceptJSON

NextJSON ==
    \/ EncodeJSON
    \/ WriteErr
    \/ WriteHeaderOK
    \/ AddContentType
    \/ WriteBody

InitJSON == StorageIdle /\ RowsIdle /\ LinksIdle /\ JSONInit /\ APIIdle

SpecJSON == InitJSON /\ [][NextJSON]_vars

\* ----------------------------------------------------------- ConfigureAPI

\* The program is about to load its configuration; ConfigureAPI, called with
\* the configuration returned, then starts both goroutines and registers
\* channel stop for interrupts.
APIInit ==
    /\ servePc = "start"
    /\ exitPc = "wait"
    /\ srv = "new"
    /\ stop = 0
    /\ signals = 0
    /\ requests = 0
    /\ events = <<>>
    /\ confIn \in [loads : BOOLEAN, dialect : {"sqlite3", "mysql", "postgres"},
                    addr : {"", ":9090"}, listens : BOOLEAN,
                    opens : BOOLEAN, ping : {"nil", "ping error"}]
    /\ confPc = "load"
    /\ conf = EmptyConfigurationForError
    /\ confErr = "unset"

\* iListener.StartingServer()
StartingServer ==
    /\ confPc = "returned"
    /\ servePc = "start"
    /\ events' = Append(events, "StartingServer")
    /\ servePc' = "listen"
    /\ UNCHANGED <<exitPc, srv, stop, signals, requests>>
    /\ UNCHANGED <<confIn, confPc, conf, confErr>>
    /\ UNCHANGED exceptAPI

\* server.ListenAndServe() is entered: it returns ErrServerClosed at once
\* when the server was shut down already; otherwise it fails to listen, or
\* listens and serves.
ListenAndServe ==
    /\ servePc = "listen"
    /\ \/ /\ srv = "shutdown"
          /\ servePc' = "failed"
          /\ UNCHANGED <<srv, events>>
       \/ /\ srv = "new"
          /\ servePc' = "failed"
          /\ UNCHANGED <<srv, events>>
       \/ /\ srv = "new"
          /\ srv' = "listening"
          /\ servePc' = "serving"
          /\ events' = Append(events, "listening")
    /\ UNCHANGED <<exitPc, stop, signals, requests>>
    /\ UNCHANGED <<confIn, confPc, conf, confErr>>
    /\ UNCHANGED exceptAPI

\* The server answers a request.
ServeRequest ==
    /\ servePc = "serving" /\ srv = "listening"
    /\ requests < MaxRequests
    /\ requests' = requests + 1
    /\ UNCHANGED <<servePc, exitPc, srv, stop, signals, events>>
    /\ UNCHANGED <<confIn, confPc, conf, confErr>>
    /\ UNCHANGED exceptAPI

\* ListenAndServe returns ErrServerClosed once Shutdown was called.
ServeReturns ==
    /\ servePc = "serving" /\ srv = "shutdown"
    /\ servePc' = "failed"
    /\ UNCHANGED <<exitPc, srv, stop, signals, requests, events>>
    /\ UNCHANGED <<confIn, confPc, conf, confErr>>
    /\ UNCHANGED exceptAPI

\* iListener.ServerStartFailed(serverListenErr)
ServerStartFailed ==
    /\ servePc = "failed"
    /\ events' = Append(events, "ServerStartFailed")
    /\ servePc' = "end"
    /\ UNCHANGED <<exitPc, srv, stop, signals, requests>>
    /\ UNCHANGED <<confIn, confPc, conf, confErr>>
    /\ UNCHANGED exceptAPI

\* An interrupt reaches the process: it is put into stop unless the channel
\* is full.
Interrupt ==
    /\ confPc = "returned"
    /\ signals < MaxSignals
    /\ signals' = signals + 1
    /\ stop' = 1
    /\ events' = Append(events, "interrupt")
    /\ UNCHANGED <<servePc, exitPc, srv, requests>>
    /\ UNCHANGED <<confIn, confPc, conf, confErr>>
    /\ UNCHANGED exceptAPI

\* <-stop
ReceiveStop ==
    /\ exitPc = "wait" /\ stop = 1
    /\ stop' = 0
    /\ exitPc' = "shutdown"
    /\ UNCHANGED <<servePc, srv, signals, requests, events>>
    /\ UNCHANGED <<confIn, confPc, conf, confErr>>
    /\ UNCHANGED exceptAPI

\* handleExit: server.Shutdown(serverShutdownContext) returns.
Shutdown ==
    /\ exitPc = "shutdown"
    /\ srv' = "shutdown"
    /\ events' = Append(events, "shutdown returned")
    /\ exitPc' = "notify"
    /\ UNCHANGED <<servePc, stop, signals, requests>>
    /\ UNCHANGED <<confIn, confPc, conf, confErr>>
    /\ UNCHANGED exceptAPI

\* handleExit: listener.ServerShutdownCompleted()
ServerShutdownCompleted ==
    /\ exitPc = "notify"
    /\ events' = Append(events, "ServerShutdownCompleted")
    /\ exitPc' = "end"
    /\ UNCHANGED <<servePc, srv, stop, signals, requests>>
    /\ UNCHANGED <<confIn, confPc, conf, confErr>>
    /\ UNCHANGED exceptAPI

\* validateConfigurationState: the address must be free to listen on, the
\* dialect must be one of the two known, the database must open and answer
\* the ping.
validateConfigurationState(configuration, env) ==
    IF ~env.listens THEN "listen error"
    ELSE IF configuration.DBDialect \notin {"sqlite3", "mysql"}
            THEN "errDBDialect"
    ELSE IF ~env.opens THEN "db open error"
    ELSE env.ping

\* The Config the setup functions fill from the file; validation replaces an
\* empty listening address by ":8080" in place.
ParsedConfig(env) ==
    [DBDialect |-> env.dialect,
     HTTPListeningAddr |-> IF env.addr = "" THEN ":8080" ELSE env.addr]

GetConfigurationFromParseConfig_KeepsConfig(env) ==
    [conf |-> ParsedConfig(env),
     err |-> validateConfigurationState(ParsedConfig(env), env)]

GetConfigurationFromParseConfig(env) ==
    IF validateConfigurationState(ParsedConfig(env), env) # "nil"
        THEN [conf |-> EmptyConfigurationForError,
              err |-> validateConfigurationState(ParsedConfig(env), env)]
        ELSE [conf |-> ParsedConfig(env), err |-> "nil"]

\* cfg, err := LoadConfiguration(configFilePath)
LoadConfiguration ==
    /\ confPc = "load"
    /\ IF confIn.loads
          THEN confPc' = "parse" /\ UNCHANGED <<conf, confErr>>
          ELSE /\ confPc' = "returned"
               /\ conf' = EmptyConfigurationForError
               /\ confErr' = "load error"
    /\ UNCHANGED <<servePc, exitPc, srv, stop, signals, requests, events,
                   confIn>>
    /\ UNCHANGED exceptAPI

\* conf, err := GetConfigurationFromParseConfig(cfg); return conf, cfg, err
ParseConfiguration ==
    /\ confPc = "parse"
    /\ conf' = GetConfigurationFromParseConfig(confIn).conf
    /\ confErr' = GetConfigurationFromParseConfig(confIn).err
    /\ confPc' = "returned"
    /\ UNCHANGED <<servePc, exitPc, srv, stop, signals, requests, events,
                   confIn>>
    /\ UNCHANGED exceptAPI

NextAPI ==
    \/ LoadConfiguration
    \/ ParseConfiguration
    \/ StartingServer
    \/ ListenAndServe
    \/ ServeRequest
    \/ ServeReturns
    \/ ServerStartFailed
    \/ Interrupt
    \/ ReceiveStop
    \/ Shutdown
    \/ ServerShutdownCompleted

InitAPI == StorageIdle /\ RowsIdle /\ LinksIdle /\ JSONIdle /\ APIInit

SpecAPI == InitAPI /\ [][NextAPI]_vars

\* ----------------------------------- the executor as a function of its input

\* What a non-nil op returns when it runs to its end without panicking.
OpResult(op) ==
    IF op.kind = "op"
        THEN IF op.out = "err" THEN OpErr(op.id) ELSE NoErr
        ELSE IF op.out = "execErr" THEN ExecErr(op.id) ELSE QueryResult(op)

\* The closure of ExecuteMultipleWriteOpsInTransaction from entry k on: the
\* ids of the ops it invokes, its result err, and whether an op panicked.
RECURSIVE RunOps(_, _, _, _)
RunOps(list, k, acc, e) ==
    IF k > Len(list)
        THEN [invoked |-> acc, err |-> e, panicked |-> FALSE]
        ELSE IF list[k].kind = "nil"
                THEN RunOps(list, k + 1, acc, e)
                ELSE IF list[k].kind = "op" /\ list[k].out = "panic"
                        THEN [invoked |-> Append(acc, list[k].id), err |-> e,
                              panicked |-> TRUE]
                        ELSE IF OpResult(list[k]) # NoErr
                                THEN [invoked |-> Append(acc, list[k].id),
                                      err |-> OpResult(list[k]),
                                      panicked |-> FALSE]
                                ELSE RunOps(list, k + 1,
                                            Append(acc, list[k].id),
                                            OpResult(list[k]))

\* ExecuteOpsInTransaction around that closure, given what the driver answers
\* to Begin and to the one Commit or Rollback.
Outcome(list, beginOk, endOk) ==
    IF ~beginOk
        THEN [invoked |-> <<>>, end |-> "none", ret |-> BeginErr]
        ELSE LET r == RunOps(list, 1, <<>>, NoErr)
                 rolled == IF endOk THEN "rolledback" ELSE "rollbackFailed"
             IN  IF r.panicked
                    THEN [invoked |-> r.invoked, end |-> rolled, ret |-> NoErr]
                    ELSE IF r.err = NoErr
                            THEN [invoked |-> r.invoked,
                                  end |-> IF endOk THEN "committed"
                                                   ELSE "commitFailed",
                                  ret |-> IF endOk THEN NoErr ELSE CommitErr]
                            ELSE [invoked |-> r.invoked, end |-> rolled,
                                  ret |-> r.err]

\* ------------------------------------------------ claims: the transaction

\* The positions of the log at which an op of the list was invoked.
Invocations == {k \in DOMAIN log : log[k].ev \in {"op", "query"}}

WasInvoked(id) == \E k \in Invocations : log[k].at = id

IsInvocation(e) == e.ev \in {"op", "query"}

\* The ids of the invoked ops, in the order of their invocation.
InvokedIds ==
    LET inv == SelectSeq(log, IsInvocation)
    IN  [k \in DOMAIN inv |-> inv[k].at]

BeginOk == \E k \in DOMAIN log : log[k].ev = "begin" /\ log[k].val = "ok"

BeginFailed == \E k \in DOMAIN log : log[k].ev = "begin" /\ log[k].val = "fail"

\* The one Commit or Rollback of the call succeeded (TRUE when there is none).
EndOk ==
    \A k \in DOMAIN log : log[k].ev \in {"commit", "rollback"} => log[k].val = "ok"

\* An invoked op panicked.
PanicRaised ==
    \E k \in Invocations :
        ops[log[k].at].kind = "op" /\ ops[log[k].at].out = "panic"

\* Op id was invoked and returned a non-nil error.
ReturnedError(id) ==
    /\ WasInvoked(id)
    /\ ops[id].kind \in {"op", "query"}
    /\ ~(ops[id].kind = "op" /\ ops[id].out = "panic")
    /\ OpResult(ops[id]) # NoErr
    /\ \/ ops[id].kind = "op"
       \/ pc \in {"opsReturn", "commit", "rollback", "return", "done"}

\* txOps(tx) was called and has returned (it did not panic).
OpsReturned ==
    /\ BeginOk
    /\ ~PanicRaised
    /\ pc \in {"commit", "rollback", "return", "done"}

RolledBack == txState \in {"rolledback", "rollbackFailed"}

\* C1: whenever an op of the list given to
\* ExecuteMultipleWriteOpsInTransaction has returned an error, at whatever
\* index, the committed rows after the call are the committed rows before it:
\* no effect of any op of the list is visible.
C1_FailedOpLeavesNoEffect ==
    (api = "multi" /\ \E id \in DOMAIN ops : ReturnedError(id))
        => committed = before

\* C1 witness: a three-op list whose second op failed after the first had
\* written inside the transaction; the call is over.
C1_Witness ==
    /\ api = "multi"
    /\ pc = "done"
    /\ Len(ops) = 3
    /\ ReturnedError(2)
    /\ WasInvoked(1)
    /\ pending # before
    /\ committed = before

\* C2: if the ops function panics after the transaction has begun, the panic
\* is recovered, Rollback is invoked on the transaction (once), Commit is
\* never invoked, and the call returns to its caller instead of propagating
\* the panic.
C2_PanicIsRecoveredAndRolledBack ==
    PanicRaised =>
        /\ BeginOk
        /\ pc \in {"recover", "done"}
        /\ ~Has("commit")
        /\ pc = "done" =>
              /\ Has("recover")
              /\ Count("rollback") = 1
              /\ RolledBack
              /\ ret # Unset

\* C2 witness: the second op panicked after the first had succeeded, and the
\* call has returned.
C2_Witness ==
    /\ PanicRaised
    /\ pc = "done"
    /\ Len(InvokedIds) = 2
    /\ Has("recover")
    /\ txState = "rolledback"

\* C3: if the ops function returns a non-nil error, the transaction is rolled
\* back (one Rollback call), Commit is never attempted, and the call returns
\* exactly that error, also when the rollback itself fails.
C3_OpsErrorRollsBackAndIsReturned ==
    (OpsReturned /\ opErr # NoErr) =>
        /\ ~Has("commit")
        /\ pc \in {"return", "done"} => (Count("rollback") = 1 /\ RolledBack)
        /\ pc = "done" => ret = opErr

\* C3 witness: the ops function returned an error, the rollback failed, and
\* the call returned the ops function's error.
C3_Witness ==
    /\ OpsReturned
    /\ opErr # NoErr
    /\ pc = "done"
    /\ txState = "rollbackFailed"
    /\ ret = opErr

\* C4: if the ops function returns nil, Commit is attempted exactly once and
\* Rollback is not invoked; the call returns nil when Commit succeeds and the
\* commit error when it fails.
C4_OpsSuccessCommitsOnce ==
    (OpsReturned /\ opErr = NoErr) =>
        /\ ~Has("rollback")
        /\ pc \in {"return", "done"} => Count("commit") = 1
        /\ pc = "done" =>
              /\ txState \in {"committed", "commitFailed"}
              /\ txState = "committed" => (ret = NoErr /\ committed = pending)
              /\ txState = "commitFailed" => ret = CommitErr

\* C4 witness: the ops function returned nil after writing, Commit failed and
\* the call returned the commit error.
C4_Witness ==
    /\ OpsReturned
    /\ opErr = NoErr
    /\ pc = "done"
    /\ Len(InvokedIds) >= 1
    /\ txState = "commitFailed"
    /\ ret = CommitErr

\* C5: if beginning the transaction fails, the call returns the begin error,
\* the ops function is never invoked (no op of the list runs), and neither
\* Commit nor Rollback is invoked.
C5_BeginFailureReturnsWithoutOps ==
    BeginFailed =>
        /\ pc \in {"return", "done"}
        /\ Invocations = {}
        /\ ~Has("warnNil")
        /\ ~Has("commit")
        /\ ~Has("rollback")
        /\ txState = "none"
        /\ pc = "done" => ret = BeginErr

\* C5 witness: Begin failed for a call with a non-empty op list, and the call
\* has returned.
C5_Witness ==
    /\ BeginFailed
    /\ pc = "done"
    /\ Len(ops) >= 2
    /\ ret = BeginErr

\* C6: the non-nil ops are invoked in list order, each at most once, all on
\* the transaction Begin returned; every non-nil op in front of an invoked op
\* was invoked before it; after an op that returned an error no later op is
\* invoked, and that op's error is the value the call returns.
C6_OpsRunInOrderUntilFirstError ==
    /\ \A j, k \in Invocations : j < k => log[j].at < log[k].at
    /\ \A k \in Invocations :
          /\ log[k].at \in DOMAIN ops
          /\ ops[log[k].at].kind # "nil"
          /\ log[k].val = 1
          /\ log[k].val = tx
          /\ \A id \in 1..(log[k].at - 1) :
                ops[id].kind # "nil" => WasInvoked(id)
    /\ \A id \in DOMAIN ops :
          ReturnedError(id) =>
              /\ \A k \in Invocations : log[k].at <= id
              /\ pc = "done" => ret = OpResult(ops[id])
    /\ (pc = "done" /\ BeginOk /\ ~PanicRaised
            /\ \A id \in DOMAIN ops : ~ReturnedError(id))
          => \A id \in DOMAIN ops : ops[id].kind # "nil" => WasInvoked(id)

\* C6 witness: of three non-nil ops the second returned an error; the first
\* two were invoked, the third was not, and the call returned.
C6_Witness ==
    /\ pc = "done"
    /\ Len(ops) = 3
    /\ \A id \in DOMAIN ops : ops[id].kind # "nil"
    /\ ReturnedError(2)
    /\ InvokedIds = <<1, 2>>
    /\ ret = OpResult(ops[2])

IsNotNil(op) == op.kind # "nil"

\* The op list with its nil entries removed.
RemoveNil(list) == SelectSeq(list, IsNotNil)

\* C7: a nil entry is skipped and causes no error: the ops invoked, the
\* commit or rollback outcome and the returned error of a call are those of
\* the call with the list's nil entries removed, under the same answers of
\* the driver; a list of only nil entries commits and returns nil.
C7_NilEntriesAreSkipped ==
    (api = "multi" /\ pc = "done") =>
        /\ [invoked |-> InvokedIds, end |-> txState, ret |-> ret]
              = Outcome(RemoveNil(ops), BeginOk, EndOk)
        /\ (RemoveNil(ops) = <<>> /\ BeginOk /\ EndOk)
              => (txState = "committed" /\ ret = NoErr)

\* C7 witness: a finished call whose list has a nil entry in front of an op
\* that ran.
C7_Witness ==
    /\ api = "multi"
    /\ pc = "done"
    /\ Len(ops) = 3
    /\ ops[1].kind = "nil"
    /\ ops[3].kind = "nil"
    /\ WasInvoked(2)
    /\ Has("warnNil")

\* C8: in ExecuteSingleRowWriteInTransaction, when the statement executes and
\* the driver reports no error but the affected-row count is 0 or more than
\* 1, the call returns ErrNoRowsUpdated and the transaction is rolled back,
\* not committed; the call returns nil with the transaction committed only
\* when exactly 1 row was affected.
C8_SingleWriteNeedsExactlyOneRow ==
    (api = "single" /\ pc = "done") =>
        /\ (BeginOk /\ ops[1].out = "ok" /\ ops[1].rows # 1) =>
              /\ ret = ErrNoRowsUpdated
              /\ RolledBack
              /\ ~Has("commit")
              /\ committed = before
        /\ (ret = NoErr /\ txState = "committed") =>
              (ops[1].out = "ok" /\ ops[1].rows = 1)
        /\ (BeginOk /\ ops[1].out = "ok" /\ ops[1].rows = 1) =>
              /\ Count("commit") = 1
              /\ ~Has("rollback")
              /\ EndOk => (ret = NoErr /\ txState = "committed")

\* C8 witness: a single write whose statement executed without error and
\* affected two rows was refused.
C8_Witness ==
    /\ api = "single"
    /\ pc = "done"
    /\ ops[1].out = "ok"
    /\ ops[1].rows = 2
    /\ Has("exec")
    /\ ret = ErrNoRowsUpdated

\* First position of the log holding event ev of op id (0 when there is none).
FirstAt(ev, id) ==
    IF \E k \in DOMAIN log : log[k].ev = ev /\ log[k].at = id
        THEN CHOOSE k \in DOMAIN log :
                /\ log[k].ev = ev /\ log[k].at = id
                /\ \A j \in 1..(k - 1) : ~(log[j].ev = ev /\ log[j].at = id)
        ELSE 0

CountAt(ev, id) ==
    Cardinality({k \in DOMAIN log : log[k].ev = ev /\ log[k].at = id})

\* C9: in a single write, preOp runs exactly once, after the transaction has
\* begun and before the argument provider is evaluated, which is before the
\* statement is executed; the arguments bound to the statement are those the
\* provider yields after preOp's side effect.
C9_PreOpRunsOnceBeforeArgsAndExec ==
    \A id \in DOMAIN ops :
        /\ CountAt("preOp", id) <= 1
        /\ CountAt("args", id) >= 1 =>
              /\ CountAt("preOp", id) = 1
              /\ FirstAt("begin", 0) >= 1
              /\ log[FirstAt("begin", 0)].val = "ok"
              /\ FirstAt("begin", 0) < FirstAt("preOp", id)
              /\ FirstAt("query", id) < FirstAt("preOp", id)
              /\ FirstAt("preOp", id) < FirstAt("args", id)
              /\ log[FirstAt("args", id)].val = log[FirstAt("preOp", id)].val
        /\ CountAt("exec", id) >= 1 =>
              /\ CountAt("exec", id) = 1
              /\ CountAt("args", id) = 1
              /\ FirstAt("args", id) < FirstAt("exec", id)
              /\ log[FirstAt("exec", id)].val = log[FirstAt("preOp", id)].val

\* C9 witness: the second of two single-write wrappers has executed its
\* statement with the value its preOp stamped.
C9_Witness ==
    /\ Len(ops) >= 2
    /\ ops[1].kind = "query"
    /\ ops[2].kind = "query"
    /\ CountAt("exec", 2) = 1
    /\ log[FirstAt("exec", 2)].val = 2
    /\ stamp = 2

\* ------------------------------------------------------- claims: the pool

\* C10: across sequential and concurrent calls of
\* GetConfiguredConnectionPool the initialisation body (pool creation, then
\* migration) is entered at most once, also after an attempt that failed, and
\* a caller gets past Do, and returns, only after that one attempt has
\* completed.
C10_InitialisationRunsAtMostOnce ==
    /\ initRuns <= 1
    /\ initEnded <= initRuns
    /\ Cardinality({c \in Callers :
                       cpc[c] \in {"create", "migrate", "onceStore"}}) <= 1
    /\ \A c \in Callers :
          cpc[c] \in {"afterDo", "returned"} =>
              /\ initRuns = 1
              /\ initEnded = 1
              /\ onceDone = 1
              /\ \A d \in Callers : cpc[d] \notin {"create", "migrate", "onceStore"}

\* C10 witness: the one attempt failed to create the pool, a caller that did
\* not run it has returned, and another caller is calling again.
C10_Witness ==
    /\ initRuns = 1
    /\ initEnded = 1
    /\ db = NilDB
    /\ \E c, d \in Callers :
          /\ c # d
          /\ cpc[c] = "returned"
          /\ cret[c] = <<NilDB, "openErr">>
          /\ cpc[d] = "returned"
          /\ cret[d] = <<NilDB, "errDBConnectionNeverInitialized">>
    /\ \E c \in Callers : cpc[c] = "onceCheck"

\* C11: all callers observe the outcome of the one initialisation attempt:
\* every call that has returned, the one that ran the initialisation or a
\* concurrent or later one, returned the same handle and the same error.
C11_AllCallersSeeSameOutcome ==
    \A c, d \in Callers :
        (cpc[c] = "returned" /\ cpc[d] = "returned") => cret[c] = cret[d]

\* C12: GetConfiguredConnectionPool never returns a nil pool together with a
\* nil error, and once the attempt has failed to create the pool every call
\* that did not run the attempt itself returns a nil pool together with
\* errDBConnectionNeverInitialized.
C12_NilPoolComesWithSentinel ==
    \A c \in Callers :
        cpc[c] = "returned" =>
            /\ ~(cret[c][1] = NilDB /\ cret[c][2] = "nil")
            /\ (cret[c][1] = NilDB /\ ~ranInit[c]) =>
                  cret[c] = <<NilDB, "errDBConnectionNeverInitialized">>
            /\ db = NilDB => cret[c][1] = NilDB

\* C12 witness: pool creation failed; the caller that ran the attempt called
\* again and got the sentinel, as did a caller that never ran it.
C12_Witness ==
    /\ initRuns = 1
    /\ db = NilDB
    /\ \A c \in Callers :
          /\ cpc[c] = "returned"
          /\ ~ranInit[c]
          /\ cret[c] = <<NilDB, "errDBConnectionNeverInitialized">>


\* ------------------------------------------------- the pagination fragment

HasNext == page.Next # NilCursor

HasPrevious == page.Previous # NilCursor

FragmentBuilt == fragment # NoFragment

ArgsBuilt == bindArgs # NoArgs

\* C13: for every append flag and page size, the fragment built for a
\* Pagination with both Next and Previous set equals the fragment built for
\* the Pagination with the same Next and a nil Previous.
C13_NextWinsOverPrevious ==
    (FragmentBuilt /\ HasNext /\ HasPrevious) =>
        fragment = GetPaginationQueryFragmentWithConfigurablePageSize(
                       [page EXCEPT !.Previous = NilCursor], appendFlag,
                       pageSize)

C13_Witness ==
    /\ FragmentBuilt /\ HasNext /\ HasPrevious
    /\ page.Next.ID # page.Previous.ID
    /\ fragment.pred[3] = "id < '"

\* C14: the bind values are exactly the timestamp of the active cursor (Next
\* if set, else Previous), none when no cursor is set, so they are as many as
\* the '?' of the fragment built for the same Pagination.
C14_ArgsMatchPlaceholders ==
    (FragmentBuilt /\ ArgsBuilt) =>
        /\ bindArgs = (IF HasNext THEN <<page.Next.Timestamp>>
                       ELSE IF HasPrevious THEN <<page.Previous.Timestamp>>
                       ELSE <<>>)
        /\ Len(bindArgs) = Placeholders(fragment)

\* C15: the fragment of tier Regular, Medium, Large, ExtraLarge ends with
\* LIMIT 25, 50, 100, 500, the value ExpectedMaxRowCount holds for the tier,
\* whatever the cursors and the append flag; the ordering is descending when
\* Next is set or no cursor is, ascending when only Previous is set.
C15_TierLimitAndDirection ==
    FragmentBuilt =>
        /\ pageSize = RegularPageSize => fragment.clause.limit = 25
        /\ pageSize = MediumPageSize => fragment.clause.limit = 50
        /\ pageSize = LargePageSize => fragment.clause.limit = 100
        /\ pageSize = ExtraLargePageSize => fragment.clause.limit = 500
        /\ pageSize # 0 =>
              fragment.clause.limit = ExpectedMaxRowCount(pageSize)
        /\ fragment.clause.order =
              (IF ~HasNext /\ HasPrevious
                  THEN "ORDER BY createdAt asc, id asc"
                  ELSE "ORDER BY createdAt desc, id desc")

C15_Witness ==
    /\ FragmentBuilt /\ ~HasNext /\ HasPrevious
    /\ pageSize = ExtraLargePageSize
    /\ fragment.clause =
          [order |-> "ORDER BY createdAt asc, id asc", limit |-> 500]

\* C16: the fragment has the reference shape. With a cursor active: the
\* keyword (AND when append is true, WHERE when it is false), then
\* id < '<Next.ID>' AND createdAt <= ? for Next or id > '<Previous.ID>' AND
\* createdAt >= ? for Previous, then the ordering clause with its LIMIT. With
\* no cursor: no predicate, only the ordering clause with its LIMIT, the same
\* for both values of append.
C16_FragmentHasReferenceShape ==
    FragmentBuilt =>
        /\ HasNext =>
              fragment.pred =
                  <<" ", IF appendFlag THEN "AND " ELSE "WHERE ", "id < '",
                    ToString(page.Next.ID), "' ", "AND createdAt <= ? ">>
        /\ (~HasNext /\ HasPrevious) =>
              fragment.pred =
                  <<" ", IF appendFlag THEN "AND " ELSE "WHERE ", "id > '",
                    ToString(page.Previous.ID), "' ", "AND createdAt >= ? ">>
        /\ (~HasNext /\ ~HasPrevious) =>
              /\ fragment.pred = <<" ">>
              /\ fragment = GetPaginationQueryFragmentWithConfigurablePageSize(
                                page, ~appendFlag, pageSize)
        /\ fragment.clause.order \in {"ORDER BY createdAt desc, id desc",
                                      "ORDER BY createdAt asc, id asc"}
        /\ fragment.clause.limit \in {25, 50, 100, 500}

C16_Witness ==
    /\ FragmentBuilt /\ ~HasNext /\ HasPrevious /\ appendFlag
    /\ fragment.pred[2] = "AND "
    /\ fragment.pred[4] = ToString(MaxCursorId)

\* ---------------------------------------------------------- the page sweeps

SeqRange(q) == {q[k] : k \in DOMAIN q}

\* C17: over a table of N rows whose id order agrees with the createdAt
\* order, the forward sweep with page size P stops after at most N \div P + 1
\* queries, has then returned every row exactly once, and its total lies in
\* [N, N + P).
C17_ForwardSweepVisitsEachRowOnce ==
    LET N == Cardinality(table)
        P == ExpectedMaxRowCount(sweepSize)
    IN  /\ forwardFetches <= (N \div P) + 1
        /\ spc = "forward" =>
              Cardinality(SeqRange(testData)) = Len(testData)
        /\ spc \in {"turn", "reverse", "done"} =>
              /\ SeqRange(testData) = table
              /\ Len(testData) = N
              /\ N <= Len(testData) /\ Len(testData) < N + P

C17_Witness ==
    /\ spc = "turn"
    /\ sweepSize = RegularPageSize
    /\ forwardFetches = 3
    /\ Len(testData) = MaxTableRows
    /\ testData[25].createdAt = testData[26].createdAt

\* C18 as stated: the backward sweep returns a total in [N, N + P) and
\* covers the table.
C18_ReverseSweepCoversDataset ==
    LET N == Cardinality(table)
        P == ExpectedMaxRowCount(sweepSize)
    IN  spc = "done" =>
            /\ N <= Len(oppositeOrder) /\ Len(oppositeOrder) < N + P
            /\ SeqRange(oppositeOrder) = table

\* C18, amended: the backward sweep stops after at most N \div P + 1 queries
\* and has then returned every row except the row its first Previous cursor
\* was made from (the final row of the forward sweep) exactly once: N - 1
\* rows for N >= 1, none for an empty table.
C18_ReverseSweepSkipsAnchor ==
    LET N == Cardinality(table)
        P == ExpectedMaxRowCount(sweepSize)
    IN  /\ reverseFetches <= (N \div P) + 1
        /\ spc = "done" =>
              /\ SeqRange(oppositeOrder) = table \ {absLastData}
              /\ Len(oppositeOrder) = Cardinality(table \ {absLastData})
              /\ Len(oppositeOrder) = (IF N = 0 THEN 0 ELSE N - 1)

C18_Witness ==
    /\ spc = "done"
    /\ sweepSize = RegularPageSize
    /\ reverseFetches = 3
    /\ Cardinality(table) = MaxTableRows
    /\ Len(oppositeOrder) = MaxTableRows - 1
    /\ absLastData \in table
    /\ oppositeOrder[25].createdAt = oppositeOrder[26].createdAt

\* -------------------------------------------------------- the query helpers

\* The first row Scan rejects (0: none).
FirstBad ==
    IF \E k \in DOMAIN result.rows : result.rows[k] = "bad"
        THEN CHOOSE k \in DOMAIN result.rows :
                 /\ result.rows[k] = "bad"
                 /\ \A j \in 1..(k - 1) : result.rows[j] = "ok"
        ELSE 0

\* C19: QueryRows calls the scan provider once for each row it scans, never
\* for an empty result, which returns nil; QuerySingleRow calls it exactly
\* once, also when no row matches and sql.ErrNoRows is returned; each calls
\* the argument provider exactly once.
C19_ProvidersCalledOncePerUse ==
    /\ qapi = "QueryRows" =>
          /\ qpc # "call" => argCalls = 1
          /\ qpc # "provider" => scanCalls = fetched
          /\ qpc = "returned" => scans = scanCalls
          /\ qpc = "panicked" => scans = scanCalls - 1
          /\ (qpc = "returned" /\ ~result.queryFails /\ ~result.iterErr
                /\ Len(result.rows) = 0) =>
                  scanCalls = 0 /\ qret = NoErr
    /\ qapi = "QuerySingleRow" =>
          /\ qpc # "call" => argCalls = 1
          /\ qpc = "returned" => scanCalls = 1
          /\ (qpc = "returned" /\ ~result.queryFails /\ ~result.iterErr
                /\ Len(result.rows) = 0) =>
                  qret = ErrNoRows

C19_Witness ==
    /\ qapi = "QueryRows" /\ qpc = "returned"
    /\ Len(result.rows) = MaxResultRows
    /\ scanCalls = MaxResultRows /\ scans = MaxResultRows
    /\ argCalls = 1
    /\ qret = NoErr

\* C20: QueryRows returns the error of the first row whose scan fails and
\* neither fetches nor scans a later row; once the query succeeded it closes
\* the result set exactly once on its way out, whether the rows ended, a scan
\* failed or the scan provider panicked.
C20_StopsAtFirstScanErrorAndCloses ==
    qapi = "QueryRows" =>
        /\ fetched <= (IF FirstBad = 0 THEN Len(result.rows) ELSE FirstBad)
        /\ (qpc = "returned" /\ ~result.queryFails /\ FirstBad # 0) =>
              /\ qret = ScanErr(FirstBad)
              /\ fetched = FirstBad /\ scans = FirstBad
        /\ qpc \in {"returned", "panicked"} =>
              closed = (IF result.queryFails THEN 0 ELSE 1)
        /\ closed <= 1

C20_Witness ==
    /\ qapi = "QueryRows" /\ qpc = "returned"
    /\ result.rows = <<"ok", "bad", "ok">>
    /\ qret = ScanErr(2)
    /\ fetched = 2
    /\ closed = 1

\* ------------------------------------------------ errors and open handles

\* C21 (as stated): when the iteration of QueryRows ends because the driver
\* reports an error, not the end of the result set, QueryRows returns a
\* non-nil error.
C21_IterationErrorIsReturned ==
    (/\ qapi = "QueryRows"
     /\ qpc = "returned"
     /\ ~result.queryFails
     /\ result.iterErr
     /\ fetched = Len(result.rows)
     /\ FirstBad = 0)
        => qret # NoErr

\* The calls of tx.Commit and tx.Rollback so far.
EndCalls == {k \in DOMAIN log : log[k].ev \in {"commit", "rollback"}}

\* C22: when ExecuteOpsInTransaction has returned, the transaction it began
\* has been ended by exactly one call of Commit or Rollback, whether txOps
\* succeeded, failed or panicked and whether Commit failed; and no such call
\* is made when Begin failed.
C22_TransactionEndedExactlyOnce ==
    /\ Cardinality(EndCalls) <= 1
    /\ pc = "done" =>
          /\ BeginOk => (Cardinality(EndCalls) = 1 /\ txState # "open")
          /\ BeginFailed => Cardinality(EndCalls) = 0

C22_Witness ==
    /\ pc = "done"
    /\ PanicRaised
    /\ Cardinality(EndCalls) = 1
    /\ \E k \in EndCalls : log[k].ev = "rollback"
    /\ Len(ops) = MaxOps

\* C28 (as stated): ExecuteOpsInTransaction returns nil only if the
\* transaction was committed; after a begin failure, an ops error or an ops
\* panic the returned value is non-nil.
C28_NilOnlyIfCommitted ==
    (pc = "done" /\ ret = NoErr) => txState = "committed"

\* --------------------------------------------- sweeping while rows arrive

\* C29: when rows with ids above every existing id, created no earlier than
\* any existing row, are inserted between the queries of a forward sweep, no
\* row is returned twice and, once the sweep has stopped, every row that
\* existed when it started has been returned exactly once.
C29_InsertsDoNotDisturbForwardSweep ==
    /\ Cardinality(SeqRange(testData)) = Len(testData)
    /\ spc = "turn" =>
          \A r \in startRows :
              Cardinality({k \in DOMAIN testData : testData[k] = r}) = 1

C29_Witness ==
    /\ spc = "turn"
    /\ forwardFetches = 3
    /\ Cardinality(startRows) = MaxTableRows
    /\ Cardinality(table) = MaxTableRows + MaxInserts
    /\ startRows \subseteq SeqRange(testData)

\* ---------------------------------------------------- the pagination links

\* C23: the request for the next link of GetPaginationLinks(req, p) gives a
\* Pagination whose Next is p.Next and whose Previous is nil, and the request
\* for the previous link gives Previous equal to p.Previous and a nil Next.
C23_CursorsSurviveTheLinks ==
    /\ lpc = "next" =>
          parsed = [Next |-> lpage[1].Next, Previous |-> NilCursor]
    /\ lpc = "previous" =>
          parsed = [Next |-> NilCursor, Previous |-> lpage[1].Previous]

C23_Witness ==
    /\ lpc = "next"
    /\ lpage[1].Previous # NilCursor
    /\ lpage[1].Next.ID = MaxCursorId
    /\ parsed.Next = lpage[1].Next
    /\ parsed.Previous = NilCursor

\* C24: NewPagination(first, last) sets Next exactly when first is not nil
\* and Previous exactly when last is not nil; GetPaginationLinks gives a next
\* link exactly when Next is set and a previous link exactly when Previous
\* is set, and no link for a nil Pagination.
C24_LinksFollowTheCursorsSet ==
    /\ (lpc = "paged" /\ lpage # <<>>) =>
          /\ lpage[1].Next # NilCursor <=> lrows[1] # NoRow
          /\ lpage[1].Previous # NilCursor <=> lrows[2] # NoRow
    /\ lpc = "linked" =>
          IF lpage = <<>>
              THEN DOMAIN links = {}
              ELSE /\ "next" \in DOMAIN links <=> lpage[1].Next # NilCursor
                   /\ "previous" \in DOMAIN links <=>
                         lpage[1].Previous # NilCursor

C24_Witness ==
    /\ lpc = "linked"
    /\ lpage # <<>>
    /\ lrows[1] = NoRow /\ lrows[2] # NoRow
    /\ DOMAIN links = {"previous"}

\* C25: a previous or next parameter that is empty or is no token leaves the
\* field of the Pagination nil, and the other parameter is parsed all the
\* same. (GetPagination has no error result.)
C25_BadCursorParameterIsNoCursor ==
    lpc = "read" =>
        /\ ParseCursor(lreq.query.previous).err # "nil" =>
              parsed.Previous = NilCursor
        /\ ParseCursor(lreq.query.next).err # "nil" => parsed.Next = NilCursor
        /\ \A c \in Cursors :
              /\ lreq.query.previous = CursorString(c) => parsed.Previous = c
              /\ lreq.query.next = CursorString(c) => parsed.Next = c

C25_Witness ==
    /\ lpc = "read"
    /\ lreq.query.previous = <<"1", "|", "x">>
    /\ lreq.query.next # <<>>
    /\ parsed.Previous = NilCursor
    /\ parsed.Next # NilCursor

\* -------------------------------------------------------------- WriteJSON

\* C30 (as stated): a successful WriteJSON answers 200 with the header
\* Content-Type: application/json, which is in the header map before
\* WriteHeader commits the response header; when the encoding fails the
\* answer is 500 and the status 200 is never written.
C30_JSONResponseCarriesContentType ==
    /\ jstatus = 200 =>
          HeaderLine("Content-Type", "application/json") \in jsent
    /\ ~jdata.encodes => jstatus \in {0, 500}
    /\ (jpc = "done" /\ ~jdata.encodes) => jstatus = 500

\* ----------------------------------------------------------- ConfigureAPI

\* The positions of an event in the history.
Positions(e) == {k \in DOMAIN events : events[k] = e}

\* The server was serving when the first interrupt came.
InterruptedWhileServing ==
    \E k \in Positions("listening") :
        \A j \in Positions("interrupt") : k < j

\* C26 (as stated): for a server that serves and is then interrupted, once
\* ServerShutdownCompleted has been delivered the listener has received
\* StartingServer and ServerStartFailed, and ServerShutdownCompleted was
\* delivered exactly once, after Shutdown had returned.
C26_ListenerSeesStartFailedBeforeCompleted ==
    (InterruptedWhileServing /\ Positions("ServerShutdownCompleted") # {}) =>
        /\ Positions("StartingServer") # {}
        /\ Positions("ServerStartFailed") # {}
        /\ Cardinality(Positions("ServerShutdownCompleted")) = 1
        /\ \A k \in Positions("ServerShutdownCompleted") :
              \E j \in Positions("shutdown returned") : j < k

\* ------------------------------------------------------- the configuration

\* C27: whenever GetConfiguration or GetConfigurationFromParseConfig returns
\* an error (the file does not load, the address cannot be listened on, the
\* dialect is unsupported, the database does not open or does not answer the
\* ping), the configuration returned is EmptyConfigurationForError; an
\* unsupported dialect gives errDBDialect and a failed ping gives the ping
\* error itself.
C27_ErrorComesWithEmptyConfiguration ==
    confPc = "returned" =>
        /\ confErr # "nil" => conf = EmptyConfigurationForError
        /\ (~confIn.loads \/ ~confIn.listens \/ ~confIn.opens
              \/ confIn.dialect = "postgres" \/ confIn.ping # "nil")
              => confErr # "nil"
        /\ (confIn.loads /\ confIn.listens /\ confIn.dialect = "postgres") =>
              confErr = "errDBDialect"
        /\ (confIn.loads /\ confIn.listens /\ confIn.dialect # "postgres"
              /\ confIn.opens /\ confIn.ping # "nil") =>
              confErr = confIn.ping

C27_Witness ==
    /\ confPc = "returned"
    /\ confIn.loads /\ confIn.listens /\ confIn.opens
    /\ confIn.dialect = "mysql"
    /\ confErr = "ping error"
    /\ conf = EmptyConfigurationForError

=========================================================================
